---- MODULE Spec2Model ----
(***************************************************************************)
(* Opportunity-evaluation pipeline of the USDT/USDC arbitrage engine:      *)
(* the monitor loop (ArbitrageEngine::monitor_opportunities), the best-    *)
(* opportunity selection, the RiskManager controller chain and the two-leg *)
(* execution (ArbitrageEngine::execute_arbitrage) against an exchange that *)
(* answers every call with any result the ExchangeApi trait allows.        *)
(*                                                                         *)
(* Specifications:                                                         *)
(*   Spec        the monitor loop, tick by tick (LiveSpec: with fairness)  *)
(*   SelSpec     find_best_arbitrage_opportunity over strategies' answers  *)
(*   StartupSpec ArbitrageEngine::new over configurations                  *)
(*   CtlSpec     the DailyLossLimit and TradingFrequency controllers       *)
(*   ApcSpec     the AbnormalPrice controller                              *)
(*   ExpoSpec    the Exposure controller                                   *)
(*   BlSpec      the PairBlacklist controller                              *)
(*   TwSpec      the TradingTimeWindow controller                          *)
(*   EmitSpec    the opportunities the strategies and the fallback build   *)
(*   ApcRunSpec  concurrent calls on the AbnormalPrice controller          *)
(*   FreqRunSpec concurrent calls on the TradingFrequency controller       *)
(*   TrendSpec   the TrendFollowing strategy over its price history        *)
(*   DepthSpec   the OrderBookDepth strategy, walk by walk                 *)
(*   RstSpec     a controller of one kind through reset and a check        *)
(*   StoreSpec   the rolling price stores                                  *)
(*   FreqEngSpec the monitor loop over the TradingFrequency controller     *)
(*   CalmSpec    the AbnormalPrice controller once prices settle           *)
(*               (CalmLiveSpec: with fairness)                             *)
(*   LockSpec    the controllers' mutexes under concurrent calls           *)
(*               (LockLiveSpec: with fairness)                             *)
(***************************************************************************)
EXTENDS Integers, Sequences, FiniteSets, TLC

(***************************************************************************)
(* Bounds of the model.                                                    *)
(***************************************************************************)
\* Number of ticks of the monitor loop that are explored.
MaxTicks == 2
\* Fractional decimal digits kept by the model's Decimal (rust_decimal keeps
\* 28; the model keeps fewer so that TLC's integers can hold the mantissa).
DecScale == 2

(***************************************************************************)
(* Program constants.                                                      *)
(***************************************************************************)
\* `for _ in 0..10` of both poll loops.
MaxPolls == 10
\* ArbitrageSettings::default: max_trade_amount_usdt = 100.0
MaxTradeAmountUsdt == 100

BaseAsset == "BTC"

\* Option::None of buy_order_id / sell_order_id (exchange order ids start at 1)
NoneId == 0

(***************************************************************************)
(* Decimal: fixed-point numbers, an integer count of 10^-DecScale units.   *)
(* Addition and subtraction are exact; multiplication and division round   *)
(* the result to the precision kept (half away from zero).                 *)
(***************************************************************************)
RECURSIVE Pow10(_)
Pow10(n) == IF n = 0 THEN 1 ELSE 10 * Pow10(n - 1)

DecUnit == Pow10(DecScale)

Abs(x) == IF x < 0 THEN -x ELSE x

Sign(x) == IF x < 0 THEN -1 ELSE 1

\* n / d rounded to the nearest integer, ties away from zero (d # 0)
RoundDiv(n, d) == Sign(n) * Sign(d) * ((2 * Abs(n) + Abs(d)) \div (2 * Abs(d)))

\* Decimal::from(i)
DecFrom(i) == i * DecUnit

\* a * b on Decimals
DecMul(a, b) == RoundDiv(a * b, DecUnit)

\* a / b on Decimals (b # 0)
DecDiv(a, b) == RoundDiv(a * DecUnit, b)

(***************************************************************************)
(* Data model.                                                             *)
(***************************************************************************)
QuoteCurrency == {"USDT", "USDC"}

OrderStatus == {"New", "PartiallyFilled", "Filled", "Cancelled", "Rejected", "Expired"}

ArbitrageStatus == {"Identified", "BuyOrderPlaced", "BuyOrderFilled", "SellOrderPlaced",
                    "SellOrderFilled", "Completed", "Failed"}

\* format!("{}{}", base_asset, quote)
SymbolOf(quote) == BaseAsset \o quote

\* Spot prices the exchange quotes and prices it reports in order responses.
SpotPrices == {DecFrom(3), DecFrom(3) + 3}

FillPrices == {DecFrom(3) + 5, DecFrom(3) + 7}

\* ArbitrageOpportunity::new
NewOpportunity(buy_quote, sell_quote, buy_price, sell_price, max_trade_amount) ==
    LET price_diff == sell_price - buy_price
    IN  [ buy_quote         |-> buy_quote,
          sell_quote        |-> sell_quote,
          buy_price         |-> buy_price,
          sell_price        |-> sell_price,
          price_diff        |-> price_diff,
          profit_percentage |-> IF buy_price = 0 THEN 0
                                ELSE DecMul(DecDiv(price_diff, buy_price), DecFrom(100)),
          max_trade_amount  |-> max_trade_amount ]

NoOpportunity == [ buy_quote |-> "none" ]

\* ArbitrageSettings::default: min_profit_percentage = 0.1 (percent)
MinProfitPercentage == DecUnit \div 10

(***************************************************************************)
(* Strategies (StrategySettings::default enables the Simple strategy).     *)
(***************************************************************************)
Strategies == << "Simple" >>

\* SimpleArbitrageStrategy::find_opportunity: buy on the strictly cheaper
\* market, USDC-buy otherwise, at the full max_trade_amount_usdt.
SimpleFind(usdt_price, usdc_price) ==
    IF usdt_price < usdc_price
    THEN NewOpportunity("USDT", "USDC", usdt_price, usdc_price, DecFrom(MaxTradeAmountUsdt))
    ELSE NewOpportunity("USDC", "USDT", usdc_price, usdt_price, DecFrom(MaxTradeAmountUsdt))

\* SimpleArbitrageStrategy::validate_opportunity
SimpleValidate(o) == o.profit_percentage >= MinProfitPercentage

\* strategy.find_opportunity(...) of the strategy named s
StrategyFind(s, usdt_price, usdc_price) == SimpleFind(usdt_price, usdc_price)

\* strategy.validate_opportunity(o) of the strategy named s
StrategyValidate(s, o) == SimpleValidate(o)

\* What a strategy answered in one iteration of the strategy loop:
\* find_opportunity gave Ok(Some(opp)), Ok(None) or Err, and, after Some,
\* validate_opportunity gave Ok(true), Ok(false) or Err.
StrategyAnswer(kind, opp, valid) == [ kind |-> kind, opp |-> opp, valid |-> valid ]

NoBest == [ best |-> NoOpportunity, best_profit |-> 0 ]

\* The loop body dropping what it had found when a strategy answers Err.
SelectStepErrClears(acc, a) ==
    IF a.kind = "err" \/ a.valid = "err" THEN NoBest
    ELSE IF a.kind = "some" /\ a.valid = "true"
            /\ a.opp.profit_percentage > acc.best_profit
         THEN [ best |-> a.opp, best_profit |-> a.opp.profit_percentage ]
         ELSE acc

\* One iteration of the strategy loop of find_best_arbitrage_opportunity: a
\* validated opportunity replaces the best one when strictly more profitable
\* than best_profit; Ok(None), Ok(false) and both Err arms only log.
SelectStep(acc, a) ==
    IF a.kind = "some" /\ a.valid = "true"
       /\ a.opp.profit_percentage > acc.best_profit
    THEN [ best |-> a.opp, best_profit |-> a.opp.profit_percentage ]
    ELSE acc

\* The strategy loop of find_best_arbitrage_opportunity from strategy i on,
\* over the enabled strategies.
RECURSIVE SelectBest(_, _, _, _, _)
SelectBest(i, best, best_profit, usdt_price, usdc_price) ==
    IF i > Len(Strategies) THEN best
    ELSE LET o == StrategyFind(Strategies[i], usdt_price, usdc_price)
             valid == IF StrategyValidate(Strategies[i], o) THEN "true" ELSE "false"
             acc == SelectStep([ best |-> best, best_profit |-> best_profit ],
                               StrategyAnswer("some", o, valid))
         IN  SelectBest(i + 1, acc.best, acc.best_profit, usdt_price, usdc_price)

\* The fallback comparing with `<=`: on equal prices it buys on the USDT market.
FallbackUsdtOnEquality(usdt_price, usdc_price) ==
    IF usdt_price <= usdc_price
    THEN NewOpportunity("USDT", "USDC", usdt_price, usdc_price, DecFrom(MaxTradeAmountUsdt))
    ELSE NewOpportunity("USDC", "USDT", usdc_price, usdt_price, DecFrom(MaxTradeAmountUsdt))

\* The fallback of find_best_arbitrage_opportunity when no strategy was accepted.
FallbackOpportunity(usdt_price, usdc_price) ==
    IF usdt_price < usdc_price
    THEN NewOpportunity("USDT", "USDC", usdt_price, usdc_price, DecFrom(MaxTradeAmountUsdt))
    ELSE NewOpportunity("USDC", "USDT", usdc_price, usdt_price, DecFrom(MaxTradeAmountUsdt))

\* find_best_arbitrage_opportunity once both prices were fetched
FindBest(usdt_price, usdc_price) ==
    LET best == SelectBest(1, NoOpportunity, 0, usdt_price, usdc_price)
    IN  IF best = NoOpportunity THEN FallbackOpportunity(usdt_price, usdc_price) ELSE best

(***************************************************************************)
(* RiskManager.  The engine sees its controllers through the RiskController*)
(* trait: check_opportunity answers Ok((true, None)), Ok((false, Some(r))) *)
(* or Err(e).  Of the configured controllers only the exposure controller  *)
(* can answer Err (its balance query can fail).                            *)
(***************************************************************************)
Controllers == << "DailyLossLimit", "Exposure", "AbnormalPrice" >>

CheckOutcomes(c) == IF c = "Exposure" THEN {"allow", "deny", "err"} ELSE {"allow", "deny"}

\* One assignment of an outcome to every registered controller.
OutcomeVectors ==
    { v \in [1..Len(Controllers) -> {"allow", "deny", "err"}] :
        \A i \in 1..Len(Controllers) : v[i] \in CheckOutcomes(Controllers[i]) }

NoRisk == [ is_valid |-> TRUE, reasons |-> << >>, checked |-> << >> ]

\* CheckStep with the Err arm only logging: the error neither denies nor is reported.
CheckStepErrIgnored(acc, c, out) ==
    [ is_valid |-> acc.is_valid /\ out # "deny",
      reasons  |-> IF out = "deny"
                   THEN Append(acc.reasons, [ controller |-> c, kind |-> out ])
                   ELSE acc.reasons,
      checked  |-> Append(acc.checked, c) ]

\* One iteration of the loop of validate_opportunity: controller c answered out.
CheckStep(acc, c, out) ==
    [ is_valid |-> acc.is_valid /\ out = "allow",
      reasons  |-> IF out = "allow" THEN acc.reasons
                   ELSE Append(acc.reasons, [ controller |-> c, kind |-> out ]),
      checked  |-> Append(acc.checked, c) ]

\* validate_opportunity returning at the first controller that does not allow.
RECURSIVE ValidateShortCircuit(_, _, _)
ValidateShortCircuit(i, outs, acc) ==
    IF i > Len(Controllers) \/ ~ acc.is_valid THEN acc
    ELSE ValidateShortCircuit(i + 1, outs, CheckStep(acc, Controllers[i], outs[i]))

\* RiskManager::validate_opportunity from controller i on
RECURSIVE ValidateFrom(_, _, _)
ValidateFrom(i, outs, acc) ==
    IF i > Len(Controllers) THEN acc
    ELSE ValidateFrom(i + 1, outs, CheckStep(acc, Controllers[i], outs[i]))

ValidateOpportunity(outs) == ValidateFrom(1, outs, NoRisk)

\* What the two get_price calls of a tick returned (none made yet).
NoPrices == [ fetched |-> "none", usdt |-> 0, usdc |-> 0 ]

\* The error of find_best propagated out of the loop (`?`): the loop is left.
AfterFindErrExits(found) == IF found THEN "risk" ELSE "exit"

\* The tick going on to the risk validation whatever find_best returned.
AfterFindAlwaysRisk(found) == "risk"

\* monitor_opportunities: `if let Ok(opportunity) = find_best...` has no else
\* branch; a tick without an opportunity goes straight to the sleep.
AfterFind(found) == IF found THEN "risk" ELSE "sleep"

\* The branch on is_valid lost: every opportunity is executed.
ShouldExecuteAlways(is_valid) == TRUE

\* monitor_opportunities: `if !is_valid { ... } else { execute }`
ShouldExecute(is_valid) == is_valid

\* record_result returning before any controller saw the result.
RiskRecordSkipped(log, r) == log

\* RiskManager::record_result: every controller's record_result returns Ok(()),
\* so the call itself returns Ok(()) and the result reached every controller.
RiskRecord(log, r) == Append(log, r)

(***************************************************************************)
(* execute_arbitrage helpers.                                              *)
(***************************************************************************)
\* trade_amount_base = opportunity.max_trade_amount / opportunity.buy_price
TradeAmountBase(o) == DecDiv(o.max_trade_amount, o.buy_price)

\* The result as constructed at the start of execute_arbitrage
InitialResult(o) ==
    [ buy_quote         |-> o.buy_quote,
      sell_quote        |-> o.sell_quote,
      buy_price         |-> o.buy_price,
      sell_price        |-> o.sell_price,
      trade_amount      |-> TradeAmountBase(o),
      profit            |-> 0,
      profit_percentage |-> o.profit_percentage,
      buy_order_id      |-> NoneId,
      sell_order_id     |-> NoneId,
      status            |-> "Identified" ]

\* failed_result built from the opportunity without zeroing the amounts.
FailedResultKeepsAmounts(o) ==
    [ buy_quote         |-> o.buy_quote,
      sell_quote        |-> o.sell_quote,
      buy_price         |-> o.buy_price,
      sell_price        |-> o.sell_price,
      trade_amount      |-> DecDiv(o.max_trade_amount, o.buy_price),
      profit            |-> 0,
      profit_percentage |-> o.profit_percentage,
      buy_order_id      |-> NoneId,
      sell_order_id     |-> NoneId,
      status            |-> "Failed" ]

\* failed_result of the Err branch of monitor_opportunities
FailedResult(o) ==
    [ buy_quote         |-> o.buy_quote,
      sell_quote        |-> o.sell_quote,
      buy_price         |-> o.buy_price,
      sell_price        |-> o.sell_price,
      trade_amount      |-> 0,
      profit            |-> 0,
      profit_percentage |-> 0,
      buy_order_id      |-> NoneId,
      sell_order_id     |-> NoneId,
      status            |-> "Failed" ]

NoResult == [ status |-> "none" ]

\* The poll loop running `0..=10`: one poll too many.
KeepPollingOffByOne(polls, status) == polls <= MaxPolls /\ status # "Filled"

\* Poll loop: another iteration sleeps and polls iff fewer than 10 polls
\* were made and the latest status seen is not Filled.
KeepPolling(polls, status) == polls < MaxPolls /\ status # "Filled"

\* The check after the loop lost: the leg goes on whatever the status.
NeedsCancelNever(status) == FALSE

\* After the loop: `if status != OrderStatus::Filled { cancel ... }`
NeedsCancel(status) == status # "Filled"

\* The profit taken from one product of the quantity and the price difference.
ProfitOfDifference(qty, buy_fill_price, sell_fill_price) ==
    DecMul(qty, sell_fill_price - buy_fill_price)

\* profit = sell_total - buy_total, each total a rounded Decimal product
Profit(qty, buy_fill_price, sell_fill_price) ==
    DecMul(qty, sell_fill_price) - DecMul(qty, buy_fill_price)

(***************************************************************************)
(* The exchange.  An order moves New -> PartiallyFilled -> Filled, or      *)
(* leaves the book (Expired / Rejected / Cancelled); every call observes   *)
(* the order after whatever progress the exchange made since the last one. *)
(***************************************************************************)
OpenStatuses == {"New", "PartiallyFilled"}

PlaceStatuses == {"New", "PartiallyFilled", "Filled", "Rejected", "Expired"}

OrderSucc(s) ==
    CASE s = "New"             -> {"New", "PartiallyFilled", "Filled", "Expired"}
      [] s = "PartiallyFilled" -> {"PartiallyFilled", "Filled", "Expired"}
      [] OTHER                 -> {s}

NoOrder == [ order_id |-> NoneId, status |-> "none", price |-> 0 ]

(***************************************************************************)
(* State.                                                                  *)
(***************************************************************************)
VARIABLES
    pc,                \* position of the monitor loop
    ticks,             \* ticks started so far
    db_manager,        \* TRUE iff a result sink is configured (Some(db))
    opportunity,       \* the tick's opportunity
    answers,           \* what each controller's check_opportunity answered in this tick
    risk,              \* what validate_opportunity returned in this tick
    result,            \* the result of the tick's execution
    statusTrace,       \* the values result.status has taken, in order
    buy_order_status,  \* latest response (OrderInfo) seen for the buy order
    sell_order_status, \* latest response seen for the sell order
    orders,            \* the exchange's orders placed in this tick
    next_order_id,     \* the exchange's next order id
    calls,             \* exchange calls made by the tick's execution
    recorded,          \* results passed to RiskManager::record_result in this tick
    sunk,              \* results passed to the sink in this tick
    totals,            \* executions started and record_result calls made, all ticks
    prices,            \* outcome of the tick's two get_price calls
    invoked,           \* strategies whose find_opportunity ran in this tick
    sel,               \* find_best_arbitrage_opportunity over the strategies' answers
    startup,           \* the configuration and what ArbitrageEngine::new made of it
    clock,             \* the wall clock the controllers read
    dll,               \* DailyLossLimitController
    freq,              \* TradingFrequencyController
    ctl_log,           \* the controllers' last call and the Completed results recorded
    apc,               \* AbnormalPriceController and its last call
    expo,              \* ExposureController, the exchange balance and its last call
    pair_blacklist,    \* PairBlacklistController and its last call
    tw,                \* TradingTimeWindowController, the local time and its last call
    emitted,           \* an opportunity as a strategy or the fallback emits it
    apc_run,           \* AbnormalPriceController under concurrent calls
    freq_run,          \* TradingFrequencyController under concurrent calls
    trend,             \* TrendFollowingStrategy: its price history and its last answer
    depth,             \* OrderBookDepthStrategy::find_opportunity, walk by walk
    rst,               \* a risk controller of one kind, through calls that end with reset and a check
    stores,            \* the price stores of the strategies and of the abnormal-price controller
    freq_eng,          \* the engine's monitoring loop over a trading-frequency controller
    apc_calm,          \* AbnormalPriceController checked under prices that settle after an anomaly
    lock_run           \* the mutexes of a risk controller under concurrent calls

\* State of the monitor loop and of the exchange.
engineVars == << pc, ticks, db_manager, opportunity, answers, risk, result, statusTrace,
                 buy_order_status, sell_order_status, orders, next_order_id,
                 calls, recorded, sunk, totals, prices, invoked >>

\* State of the components that are also examined on their own.
riskVars == << apc, expo, pair_blacklist, tw, emitted, apc_run, freq_run >>

\* State of the further components examined on their own.
moreVars == << trend, depth, rst, stores, freq_eng, apc_calm, lock_run >>

MoreIdle ==
    /\ trend = << >>
    /\ depth = << >>
    /\ rst = << >>
    /\ stores = << >>
    /\ freq_eng = << >>
    /\ apc_calm = << >>
    /\ lock_run = << >>

TrendFrame == << engineVars, sel, startup, clock, dll, freq, ctl_log, riskVars, depth, rst, stores, freq_eng, apc_calm, lock_run >>

DepthFrame == << engineVars, sel, startup, clock, dll, freq, ctl_log, riskVars, trend, rst, stores, freq_eng, apc_calm, lock_run >>

RstFrame == << engineVars, sel, startup, clock, dll, freq, ctl_log, riskVars, trend, depth, stores, freq_eng, apc_calm, lock_run >>

StoreFrame == << engineVars, sel, startup, clock, dll, freq, ctl_log, riskVars, trend, depth, rst, freq_eng, apc_calm, lock_run >>

FreqEngFrame == << engineVars, sel, startup, clock, dll, freq, ctl_log, riskVars, trend, depth, rst, stores, apc_calm, lock_run >>

CalmFrame == << engineVars, sel, startup, clock, dll, freq, ctl_log, riskVars, trend, depth, rst, stores, freq_eng, lock_run >>

LockFrame == << engineVars, sel, startup, clock, dll, freq, ctl_log, riskVars, trend, depth, rst, stores, freq_eng, apc_calm >>

unitVars == << sel, startup, clock, dll, freq, ctl_log, riskVars, moreVars >>

vars == << engineVars, unitVars >>

NoCalls == [ buyPlaced |-> 0, sellPlaced |-> 0, buyPolls |-> 0, sellPolls |-> 0,
             buyCancels |-> 0, sellCancels |-> 0, pollsAfterFilled |-> 0,
             pollErrors |-> 0, cancelled |-> << >> ]

(***************************************************************************)
(* Components examined on their own, at rest while the monitor loop runs.  *)
(***************************************************************************)
NoSel == [ pc |-> "idle" ]

NoStartup == [ phase |-> "idle" ]

NoClock == [ now |-> 0, date |-> 0 ]

NoDll == [ current_date |-> 0, daily_pnl |-> 0 ]

NoFreq == [ last_trade_time |-> << >>, recent_trades |-> << >> ]

RiskIdle ==
    /\ apc = << >>
    /\ expo = << >>
    /\ pair_blacklist = << >>
    /\ tw = << >>
    /\ emitted = << >>
    /\ apc_run = << >>
    /\ freq_run = << >>

UnitIdle ==
    /\ sel = NoSel
    /\ startup = NoStartup
    /\ clock = NoClock
    /\ dll = NoDll
    /\ freq = NoFreq
    /\ ctl_log = << >>
    /\ RiskIdle
    /\ MoreIdle

\* All the components at rest but one.
TrendApart ==
    /\ sel = NoSel /\ startup = NoStartup /\ clock = NoClock /\ dll = NoDll /\ freq = NoFreq
    /\ ctl_log = << >>
    /\ RiskIdle
    /\ depth = << >>
    /\ rst = << >>
    /\ stores = << >>
    /\ freq_eng = << >>
    /\ apc_calm = << >>
    /\ lock_run = << >>

DepthApart ==
    /\ sel = NoSel /\ startup = NoStartup /\ clock = NoClock /\ dll = NoDll /\ freq = NoFreq
    /\ ctl_log = << >>
    /\ RiskIdle
    /\ trend = << >>
    /\ rst = << >>
    /\ stores = << >>
    /\ freq_eng = << >>
    /\ apc_calm = << >>
    /\ lock_run = << >>

RstApart ==
    /\ sel = NoSel /\ startup = NoStartup /\ clock = NoClock /\ dll = NoDll /\ freq = NoFreq
    /\ ctl_log = << >>
    /\ RiskIdle
    /\ trend = << >>
    /\ depth = << >>
    /\ stores = << >>
    /\ freq_eng = << >>
    /\ apc_calm = << >>
    /\ lock_run = << >>

StoreApart ==
    /\ sel = NoSel /\ startup = NoStartup /\ clock = NoClock /\ dll = NoDll /\ freq = NoFreq
    /\ ctl_log = << >>
    /\ RiskIdle
    /\ trend = << >>
    /\ depth = << >>
    /\ rst = << >>
    /\ freq_eng = << >>
    /\ apc_calm = << >>
    /\ lock_run = << >>

FreqEngApart ==
    /\ sel = NoSel /\ startup = NoStartup /\ clock = NoClock /\ dll = NoDll /\ freq = NoFreq
    /\ ctl_log = << >>
    /\ RiskIdle
    /\ trend = << >>
    /\ depth = << >>
    /\ rst = << >>
    /\ stores = << >>
    /\ apc_calm = << >>
    /\ lock_run = << >>

CalmApart ==
    /\ sel = NoSel /\ startup = NoStartup /\ clock = NoClock /\ dll = NoDll /\ freq = NoFreq
    /\ ctl_log = << >>
    /\ RiskIdle
    /\ trend = << >>
    /\ depth = << >>
    /\ rst = << >>
    /\ stores = << >>
    /\ freq_eng = << >>
    /\ lock_run = << >>

LockApart ==
    /\ sel = NoSel /\ startup = NoStartup /\ clock = NoClock /\ dll = NoDll /\ freq = NoFreq
    /\ ctl_log = << >>
    /\ RiskIdle
    /\ trend = << >>
    /\ depth = << >>
    /\ rst = << >>
    /\ stores = << >>
    /\ freq_eng = << >>
    /\ apc_calm = << >>

tickVars == << opportunity, answers, risk, result, statusTrace, buy_order_status,
               sell_order_status, orders, calls, recorded, sunk, prices, invoked >>

EngineInit ==
    /\ pc = "tick"
    /\ ticks = 0
    /\ db_manager \in BOOLEAN
    /\ opportunity = NoOpportunity
    /\ answers = << >>
    /\ risk = NoRisk
    /\ result = NoResult
    /\ statusTrace = << >>
    /\ buy_order_status = NoOrder
    /\ sell_order_status = NoOrder
    /\ orders = << >>
    /\ next_order_id = 1
    /\ calls = NoCalls
    /\ recorded = << >>
    /\ sunk = << >>
    /\ totals = [ executions |-> 0, records |-> 0 ]
    /\ prices = NoPrices
    /\ invoked = << >>

Init == EngineInit /\ UnitIdle

\* The exchange's record of order id, as a response (OrderInfo)
Response(ords, id) == [ order_id |-> id, status |-> ords[id].status, price |-> ords[id].price ]

\* The exchange stores a new order under the next id; the order is a market
\* order iff place_order was given no price (None).
Placed(ords, id, quote, side, qty, limit_price, status, price) ==
    (id :> [ symbol |-> SymbolOf(quote), side |-> side, qty |-> qty,
             market |-> (limit_price = "None"), status |-> status, price |-> price ])
    @@ ords

\* Progress of order id at the exchange: a next status and, while the order
\* is still filling, a new average price.
Progressed(ords, id, status, price) ==
    [ ords EXCEPT ![id].status = status,
                  ![id].price = IF ords[id].status \in OpenStatuses THEN price ELSE @ ]

(***************************************************************************)
(* monitor_opportunities, one action per suspension point.                 *)
(***************************************************************************)
\* find_best_arbitrage_opportunity fails: get_price of <base>USDT or, after
\* it succeeded, of <base>USDC returned Err (`?`); no strategy is reached and
\* `if let Ok(opportunity)` sends the tick to the sleep.
PriceError ==
    /\ pc = "tick"
    /\ ticks < MaxTicks
    /\ \/ prices' = [ fetched |-> "usdt_err", usdt |-> 0, usdc |-> 0 ]
       \/ \E usdt_price \in SpotPrices :
             prices' = [ fetched |-> "usdc_err", usdt |-> usdt_price, usdc |-> 0 ]
    /\ ticks' = ticks + 1
    /\ pc' = AfterFind(FALSE)
    /\ UNCHANGED << db_manager, next_order_id, totals, opportunity, answers, risk,
                    result, statusTrace, buy_order_status, sell_order_status, orders,
                    calls, recorded, sunk, invoked >>
    /\ UNCHANGED unitVars

\* find_best_arbitrage_opportunity returns Ok(opportunity): both prices were
\* fetched and the strategy loop ran over every enabled strategy.
FindOpportunity ==
    /\ pc = "tick"
    /\ ticks < MaxTicks
    /\ \E usdt_price \in SpotPrices, usdc_price \in SpotPrices :
          /\ prices' = [ fetched |-> "ok", usdt |-> usdt_price, usdc |-> usdc_price ]
          /\ opportunity' = FindBest(usdt_price, usdc_price)
    /\ invoked' = Strategies
    /\ ticks' = ticks + 1
    /\ pc' = AfterFind(TRUE)
    /\ UNCHANGED << db_manager, next_order_id, answers, risk, totals, result,
                    statusTrace, buy_order_status, sell_order_status, orders, calls,
                    recorded, sunk >>
    /\ UNCHANGED unitVars

\* risk_manager.validate_opportunity(&opportunity) and the branch on is_valid.
Validate ==
    /\ pc = "risk"
    /\ \E outs \in OutcomeVectors :
          /\ answers' = outs
          /\ risk' = ValidateOpportunity(outs)
          /\ pc' = IF ShouldExecute(risk'.is_valid) THEN "execute" ELSE "sleep"
    /\ UNCHANGED << ticks, db_manager, next_order_id, totals, opportunity, result,
                    statusTrace, buy_order_status, sell_order_status, orders, calls,
                    recorded, sunk >>
    /\ UNCHANGED << prices, invoked, unitVars >>

\* execute_arbitrage up to the response of the buy place_order.
PlaceBuy ==
    /\ pc = "execute"
    /\ LET r == InitialResult(opportunity)
       IN  \/ \E status \in PlaceStatuses, price \in FillPrices :
                /\ orders' = Placed(orders, next_order_id, opportunity.buy_quote, "Buy",
                                    TradeAmountBase(opportunity), "None", status, price)
                /\ next_order_id' = next_order_id + 1
                /\ buy_order_status' = Response(orders', next_order_id)
                /\ result' = [ r EXCEPT !.buy_order_id = next_order_id,
                                        !.status = "BuyOrderPlaced" ]
                /\ statusTrace' = << "Identified", "BuyOrderPlaced" >>
                /\ calls' = [ calls EXCEPT !.buyPlaced = @ + 1 ]
                /\ pc' = "buy_wait"
           \/ /\ result' = [ r EXCEPT !.status = "Failed" ]
              /\ statusTrace' = << "Identified", "Failed" >>
              /\ calls' = [ calls EXCEPT !.buyPlaced = @ + 1 ]
              /\ pc' = "exec_err"
              /\ UNCHANGED << orders, next_order_id, buy_order_status >>
    /\ totals' = [ totals EXCEPT !.executions = @ + 1 ]
    /\ UNCHANGED << ticks, db_manager, opportunity, answers, risk, sell_order_status,
                    recorded, sunk >>
    /\ UNCHANGED << prices, invoked, unitVars >>

\* One iteration of the buy poll loop: sleep 1 s, then get_order_status.
PollBuy ==
    /\ pc = "buy_wait"
    /\ KeepPolling(calls.buyPolls, buy_order_status.status)
    /\ \/ \E status \in OrderSucc(orders[result.buy_order_id].status), price \in FillPrices :
             /\ orders' = Progressed(orders, result.buy_order_id, status, price)
             /\ buy_order_status' = Response(orders', result.buy_order_id)
             /\ pc' = "buy_wait"
       \/ /\ pc' = "exec_err"
          /\ UNCHANGED << orders, buy_order_status >>
    /\ calls' = [ calls EXCEPT !.buyPolls = @ + 1,
                               !.pollErrors = IF pc' = "exec_err" THEN @ + 1 ELSE @,
                               !.pollsAfterFilled =
                                   IF buy_order_status.status = "Filled" THEN @ + 1 ELSE @ ]
    /\ UNCHANGED << ticks, db_manager, next_order_id, totals, opportunity, answers,
                    risk, result, statusTrace, sell_order_status, recorded, sunk >>
    /\ UNCHANGED << prices, invoked, unitVars >>

\* The buy order was not seen Filled: cancel_order, then return Err.
CancelBuy ==
    /\ pc = "buy_wait"
    /\ ~ KeepPolling(calls.buyPolls, buy_order_status.status)
    /\ NeedsCancel(buy_order_status.status)
    /\ calls' = [ calls EXCEPT !.buyCancels = @ + 1,
                               !.cancelled = Append(@, result.buy_order_id) ]
    /\ \E status \in OrderSucc(orders[result.buy_order_id].status) :
          \/ /\ status \in OpenStatuses
             /\ orders' = [ orders EXCEPT ![result.buy_order_id].status = "Cancelled" ]
             /\ result' = [ result EXCEPT !.status = "Failed" ]
             /\ statusTrace' = Append(statusTrace, "Failed")
          \/ /\ orders' = [ orders EXCEPT ![result.buy_order_id].status = status ]
             /\ UNCHANGED << result, statusTrace >>
    /\ pc' = "exec_err"
    /\ UNCHANGED << ticks, db_manager, next_order_id, totals, opportunity, answers,
                    risk, buy_order_status, sell_order_status, recorded, sunk >>
    /\ UNCHANGED << prices, invoked, unitVars >>

\* The buy order was seen Filled: the sell place_order and its response.
PlaceSell ==
    /\ pc = "buy_wait"
    /\ ~ KeepPolling(calls.buyPolls, buy_order_status.status)
    /\ ~ NeedsCancel(buy_order_status.status)
    /\ \/ \E status \in PlaceStatuses, price \in FillPrices :
             /\ orders' = Placed(orders, next_order_id, opportunity.sell_quote, "Sell",
                                 TradeAmountBase(opportunity), "None", status, price)
             /\ next_order_id' = next_order_id + 1
             /\ sell_order_status' = Response(orders', next_order_id)
             /\ result' = [ result EXCEPT !.sell_order_id = next_order_id,
                                          !.status = "SellOrderPlaced" ]
             /\ statusTrace' = statusTrace \o << "BuyOrderFilled", "SellOrderPlaced" >>
             /\ pc' = "sell_wait"
       \/ /\ result' = [ result EXCEPT !.status = "Failed" ]
          /\ statusTrace' = statusTrace \o << "BuyOrderFilled", "Failed" >>
          /\ pc' = "exec_err"
          /\ UNCHANGED << orders, next_order_id, sell_order_status >>
    /\ calls' = [ calls EXCEPT !.sellPlaced = @ + 1 ]
    /\ UNCHANGED << ticks, db_manager, totals, opportunity, answers, risk,
                    buy_order_status, recorded, sunk >>
    /\ UNCHANGED << prices, invoked, unitVars >>

\* One iteration of the sell poll loop.
PollSell ==
    /\ pc = "sell_wait"
    /\ KeepPolling(calls.sellPolls, sell_order_status.status)
    /\ \/ \E status \in OrderSucc(orders[result.sell_order_id].status), price \in FillPrices :
             /\ orders' = Progressed(orders, result.sell_order_id, status, price)
             /\ sell_order_status' = Response(orders', result.sell_order_id)
             /\ pc' = "sell_wait"
       \/ /\ pc' = "exec_err"
          /\ UNCHANGED << orders, sell_order_status >>
    /\ calls' = [ calls EXCEPT !.sellPolls = @ + 1,
                               !.pollErrors = IF pc' = "exec_err" THEN @ + 1 ELSE @,
                               !.pollsAfterFilled =
                                   IF sell_order_status.status = "Filled" THEN @ + 1 ELSE @ ]
    /\ UNCHANGED << ticks, db_manager, next_order_id, totals, opportunity, answers,
                    risk, result, statusTrace, buy_order_status, recorded, sunk >>
    /\ UNCHANGED << prices, invoked, unitVars >>

\* The sell order was not seen Filled: cancel_order, then return Err.
CancelSell ==
    /\ pc = "sell_wait"
    /\ ~ KeepPolling(calls.sellPolls, sell_order_status.status)
    /\ NeedsCancel(sell_order_status.status)
    /\ calls' = [ calls EXCEPT !.sellCancels = @ + 1,
                               !.cancelled = Append(@, result.sell_order_id) ]
    /\ \E status \in OrderSucc(orders[result.sell_order_id].status) :
          \/ /\ status \in OpenStatuses
             /\ orders' = [ orders EXCEPT ![result.sell_order_id].status = "Cancelled" ]
             /\ result' = [ result EXCEPT !.status = "Failed" ]
             /\ statusTrace' = Append(statusTrace, "Failed")
          \/ /\ orders' = [ orders EXCEPT ![result.sell_order_id].status = status ]
             /\ UNCHANGED << result, statusTrace >>
    /\ pc' = "exec_err"
    /\ UNCHANGED << ticks, db_manager, next_order_id, totals, opportunity, answers,
                    risk, buy_order_status, sell_order_status, recorded, sunk >>
    /\ UNCHANGED << prices, invoked, unitVars >>

\* The sell order was seen Filled: Completed, the profit, return Ok(result).
Complete ==
    /\ pc = "sell_wait"
    /\ ~ KeepPolling(calls.sellPolls, sell_order_status.status)
    /\ ~ NeedsCancel(sell_order_status.status)
    /\ result' = [ result EXCEPT !.status = "Completed",
                                 !.profit = Profit(TradeAmountBase(opportunity),
                                                   buy_order_status.price,
                                                   sell_order_status.price) ]
    /\ statusTrace' = Append(statusTrace, "Completed")
    /\ pc' = "exec_ok"
    /\ UNCHANGED << ticks, db_manager, next_order_id, totals, opportunity, answers,
                    risk, buy_order_status, sell_order_status, orders, calls, recorded,
                    sunk >>
    /\ UNCHANGED << prices, invoked, unitVars >>

\* Ok(result) branch: record_result, then the sink when one is configured
\* (the sink's own Ok or Err is only logged).
RecordCompleted ==
    /\ pc = "exec_ok"
    /\ recorded' = RiskRecord(recorded, result)
    /\ sunk' = IF db_manager THEN Append(sunk, result) ELSE sunk
    /\ totals' = [ totals EXCEPT !.records = @ + Len(recorded') - Len(recorded) ]
    /\ pc' = "sleep"
    /\ UNCHANGED << ticks, db_manager, next_order_id, opportunity, answers, risk,
                    result, statusTrace, buy_order_status, sell_order_status, orders,
                    calls >>
    /\ UNCHANGED << prices, invoked, unitVars >>

\* Err(e) branch: failed_result is built, recorded and sent to the sink.
RecordFailed ==
    /\ pc = "exec_err"
    /\ result' = FailedResult(opportunity)
    /\ statusTrace' = IF result.status = "Failed" THEN statusTrace
                      ELSE Append(statusTrace, "Failed")
    /\ recorded' = RiskRecord(recorded, result')
    /\ sunk' = IF db_manager THEN Append(sunk, result') ELSE sunk
    /\ totals' = [ totals EXCEPT !.records = @ + Len(recorded') - Len(recorded) ]
    /\ pc' = "sleep"
    /\ UNCHANGED << ticks, db_manager, next_order_id, opportunity, answers, risk,
                    buy_order_status, sell_order_status, orders, calls >>
    /\ UNCHANGED << prices, invoked, unitVars >>

\* sleep(check_interval_ms), then the next iteration of the loop.  The locals
\* of the finished tick are gone; the engine keeps no reference to its orders.
Sleep ==
    /\ pc = "sleep"
    /\ pc' = "tick"
    /\ opportunity' = NoOpportunity
    /\ answers' = << >>
    /\ risk' = NoRisk
    /\ result' = NoResult
    /\ statusTrace' = << >>
    /\ buy_order_status' = NoOrder
    /\ sell_order_status' = NoOrder
    /\ orders' = << >>
    /\ calls' = NoCalls
    /\ recorded' = << >>
    /\ sunk' = << >>
    /\ prices' = NoPrices
    /\ invoked' = << >>
    /\ UNCHANGED << ticks, db_manager, next_order_id, totals >>
    /\ UNCHANGED unitVars

Next ==
    \/ PriceError
    \/ FindOpportunity
    \/ Validate
    \/ PlaceBuy
    \/ PollBuy
    \/ CancelBuy
    \/ PlaceSell
    \/ PollSell
    \/ CancelSell
    \/ Complete
    \/ RecordCompleted
    \/ RecordFailed
    \/ Sleep

Spec == Init /\ [][Next]_vars

\* The monitor loop when every await returns: each exchange call, each
\* controller call and each sleep ends, so a step that can be taken is taken.
LiveSpec == Init /\ [][Next]_vars /\ WF_vars(Next)

(***************************************************************************)
(* find_best_arbitrage_opportunity on its own, over strategies seen        *)
(* through the TradingStrategy trait: each enabled strategy answers        *)
(* find_opportunity with Ok(Some(opp)), Ok(None) or Err and, after Some,   *)
(* validate_opportunity with Ok(true), Ok(false) or Err.                   *)
(***************************************************************************)
\* Number of enabled strategies.
NumStrategies == 2

\* TwapSettings::default: slices = 5 (TWAP offers one slice of the amount)
TwapSlices == 5

\* Sell prices of the opportunities strategies build (TWAP means, prices
\* shifted for slippage), against a buy price of 3.
StrategyPrices == {DecFrom(3), DecFrom(3) + 3, DecFrom(3) + 6}

StrategyOpportunities ==
    { NewOpportunity(d[1], d[2], DecFrom(3), sp, amt) :
        d \in {<< "USDT", "USDC" >>, << "USDC", "USDT" >>},
        sp \in StrategyPrices,
        amt \in {DecFrom(MaxTradeAmountUsdt),
                 DecDiv(DecFrom(MaxTradeAmountUsdt), DecFrom(TwapSlices))} }

StrategyAnswers ==
    { StrategyAnswer("err", NoOpportunity, "skipped"),
      StrategyAnswer("none", NoOpportunity, "skipped") }
    \cup { StrategyAnswer("some", o, v) :
             o \in StrategyOpportunities, v \in {"true", "false", "err"} }

SelInit ==
    /\ EngineInit /\ db_manager = FALSE
    /\ sel = [ pc |-> "prices", i |-> 1, usdt |-> 0, usdc |-> 0, acc |-> NoBest,
               log |-> << >>, returned |-> NoOpportunity ]
    /\ startup = NoStartup /\ clock = NoClock /\ dll = NoDll /\ freq = NoFreq
    /\ ctl_log = << >>
    /\ RiskIdle
    /\ MoreIdle

\* get_price of <base>USDT or of <base>USDC returns Err: `?` returns it.
SelPriceError ==
    /\ sel.pc = "prices"
    /\ sel' = [ sel EXCEPT !.pc = "err" ]
    /\ UNCHANGED << engineVars, riskVars, moreVars, startup, clock, dll, freq, ctl_log >>

\* Both get_price calls return a price.
SelGetPrices ==
    /\ sel.pc = "prices"
    /\ \E usdt_price \in SpotPrices, usdc_price \in SpotPrices :
          sel' = [ sel EXCEPT !.pc = "loop", !.usdt = usdt_price, !.usdc = usdc_price ]
    /\ UNCHANGED << engineVars, riskVars, moreVars, startup, clock, dll, freq, ctl_log >>

\* One iteration of `for strategy in &self.strategies`.
SelStrategy ==
    /\ sel.pc = "loop"
    /\ sel.i <= NumStrategies
    /\ \E a \in StrategyAnswers :
          LET acc == SelectStep(sel.acc, a)
          IN  sel' = [ sel EXCEPT !.i = @ + 1,
                                  !.acc = acc,
                                  !.log = Append(@, [ answer |-> a, best_after |-> acc.best ]) ]
    /\ UNCHANGED << engineVars, riskVars, moreVars, startup, clock, dll, freq, ctl_log >>

\* After the loop: the fallback when best_opportunity is None, else the best.
SelReturn ==
    /\ sel.pc = "loop"
    /\ sel.i > NumStrategies
    /\ sel' = [ sel EXCEPT !.pc = "done",
                            !.returned = IF sel.acc.best = NoOpportunity
                                         THEN FallbackOpportunity(sel.usdt, sel.usdc)
                                         ELSE sel.acc.best ]
    /\ UNCHANGED << engineVars, riskVars, moreVars, startup, clock, dll, freq, ctl_log >>

SelNext == SelPriceError \/ SelGetPrices \/ SelStrategy \/ SelReturn

SelSpec == SelInit /\ [][SelNext]_vars

(***************************************************************************)
(* Startup: ArbitrageEngine::new building the RiskManager from the         *)
(* configuration, and main running the monitor loop on the engine it got.  *)
(* Strings are sequences of characters.                                    *)
(***************************************************************************)
\* Longest blacklisted_pairs list explored.
MaxPairs == 2

USDT == << "U", "S", "D", "T" >>

USDC == << "U", "S", "D", "C" >>

\* Entries of risk_settings.pair_blacklist.blacklisted_pairs
PairStrings ==
    { << "B", "T", "C" >> \o USDT, << "E", "T", "H" >> \o USDC,
      << "B", "T", "C", "E", "U", "R" >>, << "U", "S", "D" >> }

\* Values of the hour and minute settings of the trading time window.
ConfigHours == {9, 24}

ConfigMinutes == {30, 60}

\* Values of risk_settings.enabled_controllers
ControllerLists ==
    { << "DailyLossLimit", "AbnormalPrice" >>,
      << "TradingTimeWindow" >>,
      << "PairBlacklist" >>,
      << "DailyLossLimit", "TradingTimeWindow", "PairBlacklist" >> }

Configs ==
    [ enabled_controllers : ControllerLists,
      start_hour : ConfigHours, start_minute : ConfigMinutes,
      end_hour : ConfigHours, end_minute : ConfigMinutes,
      blacklisted_pairs : UNION { [1..n -> PairStrings] : n \in 0..MaxPairs } ]

\* str::ends_with
EndsWith(s, suffix) ==
    /\ Len(s) >= Len(suffix)
    /\ SubSeq(s, Len(s) - Len(suffix) + 1, Len(s)) = suffix

\* NaiveTime::from_hms_opt(hour, min, 0).is_some()
FromHmsOpt(hour, min) == hour < 24 /\ min < 60

\* TradingTimeWindowController::new(...).is_ok()
TimeWindowNew(cfg) ==
    /\ FromHmsOpt(cfg.start_hour, cfg.start_minute)
    /\ FromHmsOpt(cfg.end_hour, cfg.end_minute)

\* PairBlacklistController::add_to_blacklist: the pair format!("{}{}", asset, quote)
AddToBlacklist(blacklist, asset, quote) == blacklist \cup { asset \o quote }

\* The loop over blacklisted_pairs from entry i on: an entry ending in USDT
\* or USDC is split and added, any other entry is only warned about.
RECURSIVE LoadBlacklist(_, _, _)
LoadBlacklist(pairs, i, blacklist) ==
    IF i > Len(pairs) THEN blacklist
    ELSE LET pair_str == pairs[i]
             base == SubSeq(pair_str, 1, Len(pair_str) - 4)
         IN  LoadBlacklist(pairs, i + 1,
                 IF EndsWith(pair_str, USDT) THEN AddToBlacklist(blacklist, base, USDT)
                 ELSE IF EndsWith(pair_str, USDC) THEN AddToBlacklist(blacklist, base, USDC)
                 ELSE blacklist)

\* The loop over enabled_controllers from entry i on; e is the engine built
\* so far.  A time window that cannot be built is warned about and left out.
RECURSIVE AddControllers(_, _, _)
AddControllers(cfg, i, e) ==
    IF i > Len(cfg.enabled_controllers) THEN e
    ELSE LET c == cfg.enabled_controllers[i]
         IN  AddControllers(cfg, i + 1,
                 IF c = "TradingTimeWindow"
                 THEN IF TimeWindowNew(cfg)
                      THEN [ e EXCEPT !.controllers = Append(@, c) ]
                      ELSE e
                 ELSE IF c = "PairBlacklist"
                 THEN [ e EXCEPT !.controllers = Append(@, c),
                                 !.blacklist = LoadBlacklist(cfg.blacklisted_pairs, 1, {}) ]
                 ELSE [ e EXCEPT !.controllers = Append(@, c) ])

\* ArbitrageEngine::new: Ok(Self { .. }) on every path.
NewEngine(cfg) ==
    AddControllers(cfg, 1, [ ok |-> TRUE, controllers |-> << >>, blacklist |-> {} ])

StartupInit ==
    /\ EngineInit /\ db_manager = FALSE
    /\ \E cfg \in Configs :
          startup = [ phase |-> "config", cfg |-> cfg,
                      engine |-> [ ok |-> FALSE, controllers |-> << >>, blacklist |-> {} ],
                      ticks |-> 0 ]
    /\ sel = NoSel /\ clock = NoClock /\ dll = NoDll /\ freq = NoFreq
    /\ ctl_log = << >>
    /\ RiskIdle
    /\ MoreIdle

\* main: `let mut engine = ArbitrageEngine::new(api, config, base_asset)?;`
StartupNew ==
    /\ startup.phase = "config"
    /\ LET e == NewEngine(startup.cfg)
       IN  startup' = [ startup EXCEPT !.engine = e,
                                       !.phase = IF e.ok THEN "running" ELSE "failed" ]
    /\ UNCHANGED << engineVars, riskVars, moreVars, sel, clock, dll, freq, ctl_log >>

\* main: engine.monitor_opportunities(), one tick of its loop.
StartupTick ==
    /\ startup.phase = "running"
    /\ startup.ticks < MaxTicks
    /\ startup' = [ startup EXCEPT !.ticks = @ + 1 ]
    /\ UNCHANGED << engineVars, riskVars, moreVars, sel, clock, dll, freq, ctl_log >>

StartupNext == StartupNew \/ StartupTick

StartupSpec == StartupInit /\ [][StartupNext]_vars

(***************************************************************************)
(* The DailyLossLimit and TradingFrequency controllers on their own, under *)
(* a RiskManager that passes every recorded result to both, and a wall     *)
(* clock giving the time in seconds (Utc::now) and the local calendar date *)
(* (Local::now), which advance independently of the calls.                 *)
(***************************************************************************)
\* Results recorded, seconds and midnights explored.
MaxRecords == 3

MaxTime == 3

MaxDate == 1

\* Settings of the frequency controller, scaled to the seconds explored.
MinIntervalSeconds == 1

MaxTradesPerTimeframe == 2

TimeframeSeconds == 2

\* DailyLossLimitController::new(dec!(100))
MaxDailyLoss == 100

\* Results handed to record_result: status and profit.
RecordedResults ==
    { [ status |-> "Completed", profit |-> DecFrom(0 - 50) ],
      [ status |-> "Completed", profit |-> DecFrom(20) ],
      [ status |-> "Failed", profit |-> DecFrom(0 - 50) ],
      [ status |-> "SellOrderPlaced", profit |-> DecFrom(0 - 50) ] }

\* check_new_day storing the new date but keeping the accumulated loss.
CheckNewDayKeepsPnl(d, today) ==
    IF d.current_date # today THEN [ d EXCEPT !.current_date = today ] ELSE d

\* DailyLossLimitController::check_new_day
CheckNewDay(d, today) ==
    IF d.current_date # today
    THEN [ current_date |-> today, daily_pnl |-> 0 ]
    ELSE d

\* The limit compared with `<`: a loss equal to the limit is still allowed.
DllDeniesBeyondLimit(daily_pnl) == daily_pnl < 0 - DecFrom(MaxDailyLoss)

\* check_opportunity: `if daily_pnl <= -self.max_daily_loss` => Ok((false, ..))
DllDenies(daily_pnl) == daily_pnl <= 0 - DecFrom(MaxDailyLoss)

\* DailyLossLimitController::check_opportunity: the state left and the answer
DllCheck(d, today) ==
    LET d2 == CheckNewDay(d, today)
    IN  [ state |-> d2, allowed |-> ~ DllDenies(d2.daily_pnl) ]

\* DailyLossLimitController::record_result
DllRecord(d, today, r) ==
    LET d2 == CheckNewDay(d, today)
    IN  IF r.status = "Completed"
        THEN [ d2 EXCEPT !.daily_pnl = @ + r.profit ]
        ELSE d2

\* DailyLossLimitController::reset
DllReset(d) == [ d EXCEPT !.daily_pnl = 0 ]

\* check_frequency: `while let Some(trade_time) = recent_trades.front()`
\* popping the entries older than cutoff_time
RECURSIVE PruneFront(_, _)
PruneFront(trades, cutoff_time) ==
    IF trades # << >> /\ Head(trades) < cutoff_time
    THEN PruneFront(Tail(trades), cutoff_time)
    ELSE trades

\* check_frequency counting every trade recorded, the old ones as well.
FreqCheckUnpruned(f, now) ==
    IF f.last_trade_time # << >> /\ now - f.last_trade_time[1] < MinIntervalSeconds
    THEN [ state |-> f, allowed |-> FALSE, reason |-> "interval" ]
    ELSE IF Len(f.recent_trades) >= MaxTradesPerTimeframe
         THEN [ state |-> f, allowed |-> FALSE, reason |-> "count" ]
         ELSE [ state |-> f, allowed |-> TRUE, reason |-> "none" ]

\* check_frequency denying only beyond max_trades_per_timeframe trades.
FreqCheckCountBeyond(f, now) ==
    IF f.last_trade_time # << >> /\ now - f.last_trade_time[1] < MinIntervalSeconds
    THEN [ state |-> f, allowed |-> FALSE, reason |-> "interval" ]
    ELSE LET pruned == PruneFront(f.recent_trades, now - TimeframeSeconds)
             state == [ f EXCEPT !.recent_trades = pruned ]
         IN  IF Len(pruned) > MaxTradesPerTimeframe
             THEN [ state |-> state, allowed |-> FALSE, reason |-> "count" ]
             ELSE [ state |-> state, allowed |-> TRUE, reason |-> "none" ]

\* TradingFrequencyController::check_frequency: the state left and the answer
FreqCheck(f, now) ==
    IF f.last_trade_time # << >> /\ now - f.last_trade_time[1] < MinIntervalSeconds
    THEN [ state |-> f, allowed |-> FALSE, reason |-> "interval" ]
    ELSE LET pruned == PruneFront(f.recent_trades, now - TimeframeSeconds)
             state == [ f EXCEPT !.recent_trades = pruned ]
         IN  IF Len(pruned) >= MaxTradesPerTimeframe
             THEN [ state |-> state, allowed |-> FALSE, reason |-> "count" ]
             ELSE [ state |-> state, allowed |-> TRUE, reason |-> "none" ]

\* record_result accounting Completed results only.
FreqRecordCompletedOnly(f, now, r) ==
    IF r.status = "Completed"
    THEN [ last_trade_time |-> << now >>, recent_trades |-> Append(f.recent_trades, now) ]
    ELSE f

\* TradingFrequencyController::record_result (record_trade for Completed or Failed)
FreqRecord(f, now, r) ==
    IF r.status = "Completed" \/ r.status = "Failed"
    THEN [ last_trade_time |-> << now >>, recent_trades |-> Append(f.recent_trades, now) ]
    ELSE f

\* TradingFrequencyController::reset
FreqReset(f) == [ last_trade_time |-> << >>, recent_trades |-> << >> ]

\* The call just made on the controllers, with the states it found.
LastCall(op, r, allowed) ==
    [ op |-> op, status |-> r.status, profit |-> r.profit, allowed |-> allowed,
      now |-> clock.now, date |-> clock.date, dll_before |-> dll, freq_before |-> freq ]

NoResultArg == [ status |-> "none", profit |-> 0 ]

CtlInit ==
    /\ EngineInit /\ db_manager = FALSE
    /\ clock = NoClock
    /\ dll = NoDll
    /\ freq = NoFreq
    /\ ctl_log = [ ledger |-> << >>, trades |-> << >>, records |-> 0,
                   last |-> [ op |-> "none", status |-> "none", profit |-> 0,
                              allowed |-> TRUE, now |-> 0, date |-> 0,
                              dll_before |-> NoDll, freq_before |-> NoFreq ] ]
    /\ sel = NoSel /\ startup = NoStartup
    /\ RiskIdle
    /\ MoreIdle

\* DailyLossLimitController::check_opportunity
CtlDllCheck ==
    /\ LET c == DllCheck(dll, clock.date)
       IN  /\ dll' = c.state
           /\ ctl_log' = [ ctl_log EXCEPT !.last = LastCall("dll_check", NoResultArg, c.allowed) ]
    /\ UNCHANGED << engineVars, riskVars, moreVars, sel, startup, clock, freq >>

\* TradingFrequencyController::check_opportunity
CtlFreqCheck ==
    /\ LET c == FreqCheck(freq, clock.now)
       IN  /\ freq' = c.state
           /\ ctl_log' = [ ctl_log EXCEPT !.last = LastCall("freq_check", NoResultArg, c.allowed) ]
    /\ UNCHANGED << engineVars, riskVars, moreVars, sel, startup, clock, dll >>

\* RiskManager::record_result: every controller's record_result, in order.
\* The ledger keeps the Completed results with the date they were recorded on,
\* trades the times at which Completed and Failed results were recorded.
CtlRecord ==
    /\ ctl_log.records < MaxRecords
    /\ \E r \in RecordedResults :
          /\ dll' = DllRecord(dll, clock.date, r)
          /\ freq' = FreqRecord(freq, clock.now, r)
          /\ ctl_log' = [ ledger |-> IF r.status = "Completed"
                                     THEN Append(ctl_log.ledger,
                                                 [ date |-> clock.date, profit |-> r.profit ])
                                     ELSE ctl_log.ledger,
                          trades |-> IF r.status \in { "Completed", "Failed" }
                                     THEN Append(ctl_log.trades, clock.now)
                                     ELSE ctl_log.trades,
                          records |-> ctl_log.records + 1,
                          last |-> LastCall("record", r, TRUE) ]
    /\ UNCHANGED << engineVars, riskVars, moreVars, sel, startup, clock >>

\* DailyLossLimitController::reset
CtlDllReset ==
    /\ dll' = DllReset(dll)
    /\ ctl_log' = [ ctl_log EXCEPT !.ledger = << >>,
                                   !.last = LastCall("dll_reset", NoResultArg, TRUE) ]
    /\ UNCHANGED << engineVars, riskVars, moreVars, sel, startup, clock, freq >>

\* TradingFrequencyController::reset
CtlFreqReset ==
    /\ freq' = FreqReset(freq)
    /\ ctl_log' = [ ctl_log EXCEPT !.trades = << >>,
                                   !.last = LastCall("freq_reset", NoResultArg, TRUE) ]
    /\ UNCHANGED << engineVars, riskVars, moreVars, sel, startup, clock, dll >>

\* A second passes.
CtlSecond ==
    /\ clock.now < MaxTime
    /\ clock' = [ clock EXCEPT !.now = @ + 1 ]
    /\ UNCHANGED << engineVars, riskVars, moreVars, sel, startup, dll, freq, ctl_log >>

\* Local midnight passes: the local calendar date changes.
CtlMidnight ==
    /\ clock.date < MaxDate
    /\ clock' = [ clock EXCEPT !.date = @ + 1 ]
    /\ UNCHANGED << engineVars, riskVars, moreVars, sel, startup, dll, freq, ctl_log >>

CtlNext ==
    \/ CtlDllCheck
    \/ CtlFreqCheck
    \/ CtlRecord
    \/ CtlDllReset
    \/ CtlFreqReset
    \/ CtlSecond
    \/ CtlMidnight

CtlSpec == CtlInit /\ [][CtlNext]_vars

(***************************************************************************)
(* The AbnormalPriceController on its own: check_opportunity,              *)
(* record_result and reset called one after the other, and a wall clock    *)
(* giving the time in seconds (Utc::now).                                  *)
(***************************************************************************)
\* window_size and cooldown_period, scaled to the calls and seconds explored.
WindowSize == 2

CooldownPeriod == 2

\* AbnormalPriceController::new(5, dec!(10), 60): abnormal_threshold (percent)
AbnormalThreshold == 10

\* Prices the opportunities carry.
ApcPrices == { DecFrom(100), DecFrom(120) }

\* Opportunities handed to check_opportunity: what the controller reads of them.
ApcOpportunities ==
    { [ buy_quote |-> q, buy_price |-> b, sell_price |-> s ] :
        q \in QuoteCurrency, b \in ApcPrices, s \in ApcPrices }

\* add_price keeping every record.
AddPriceUnbounded(history, symbol, price) ==
    Append(history, [ symbol |-> symbol, price |-> price ])

\* AbnormalPriceController::add_price
AddPrice(history, symbol, price) ==
    LET pushed == Append(history, [ symbol |-> symbol, price |-> price ])
    IN  IF Len(pushed) > WindowSize * 2 THEN Tail(pushed) ELSE pushed

\* check_opportunity, `match opportunity.buy_quote`: the two add_price calls
StorePrices(history, o) ==
    IF o.buy_quote = "USDT"
    THEN AddPrice(AddPrice(history, SymbolOf("USDT"), o.buy_price),
                  SymbolOf("USDC"), o.sell_price)
    ELSE AddPrice(AddPrice(history, SymbolOf("USDC"), o.buy_price),
                  SymbolOf("USDT"), o.sell_price)

\* detect_abnormal_price: `history.iter().filter(|record| record.symbol == symbol)`
SymbolRecords(history, symbol) == SelectSeq(history, LAMBDA r : r.symbol = symbol)

\* detect_abnormal_price: `previous_records.iter().map(|r| r.price).sum()`
RECURSIVE SumPrices(_, _)
SumPrices(records, n) ==
    IF n = 0 THEN 0 ELSE SumPrices(records, n - 1) + records[n].price

\* detect_abnormal_price measuring the latest sample against the mean of all
\* the symbol's samples, the latest included.
DetectAgainstAll(history, symbol) ==
    LET symbol_records == SymbolRecords(history, symbol)
        n == Len(symbol_records)
    IN  IF n < 2 THEN FALSE
        ELSE LET avg_price == DecDiv(SumPrices(symbol_records, n), DecFrom(n))
             IN  IF avg_price = 0 THEN FALSE
                 ELSE DecMul(Abs(DecDiv(symbol_records[n].price - avg_price, avg_price)),
                             DecFrom(100)) > DecFrom(AbnormalThreshold)

\* AbnormalPriceController::detect_abnormal_price: TRUE for Some(change_pct)
DetectAbnormalPrice(history, symbol) ==
    LET symbol_records == SymbolRecords(history, symbol)
        n == Len(symbol_records)
    IN  IF n < 2 THEN FALSE
        ELSE LET avg_price == DecDiv(SumPrices(symbol_records, n - 1), DecFrom(n - 1))
             IN  IF avg_price = 0 THEN FALSE
                 ELSE DecMul(Abs(DecDiv(symbol_records[n].price - avg_price, avg_price)),
                             DecFrom(100)) > DecFrom(AbnormalThreshold)

\* is_in_cooldown ending the cooldown one second early.
IsInCooldownShort(last_abnormal_time, now) ==
    /\ last_abnormal_time # << >>
    /\ now - last_abnormal_time[1] < CooldownPeriod - 1

\* AbnormalPriceController::is_in_cooldown
IsInCooldown(last_abnormal_time, now) ==
    /\ last_abnormal_time # << >>
    /\ now - last_abnormal_time[1] < CooldownPeriod

\* check_opportunity restarting the timer when it denies in cooldown.
ApcCheckRestarting(c, o, now) ==
    LET history == StorePrices(c.price_history, o)
        stored == [ c EXCEPT !.price_history = history ]
    IN  IF IsInCooldown(c.last_abnormal_time, now)
        THEN [ state |-> [ stored EXCEPT !.last_abnormal_time = << now >> ],
               allowed |-> FALSE, reason |-> "cooldown" ]
        ELSE IF DetectAbnormalPrice(history, SymbolOf("USDT"))
                \/ DetectAbnormalPrice(history, SymbolOf("USDC"))
        THEN [ state |-> [ stored EXCEPT !.last_abnormal_time = << now >> ],
               allowed |-> FALSE, reason |-> "abnormal_usdt" ]
        ELSE [ state |-> stored, allowed |-> TRUE, reason |-> "none" ]

\* AbnormalPriceController::check_opportunity: the state left and the answer
ApcCheckOpportunity(c, o, now) ==
    LET history == StorePrices(c.price_history, o)
        stored == [ c EXCEPT !.price_history = history ]
    IN  IF IsInCooldown(c.last_abnormal_time, now)
        THEN [ state |-> stored, allowed |-> FALSE, reason |-> "cooldown" ]
        ELSE IF DetectAbnormalPrice(history, SymbolOf("USDT"))
        THEN [ state |-> [ stored EXCEPT !.last_abnormal_time = << now >> ],
               allowed |-> FALSE, reason |-> "abnormal_usdt" ]
        ELSE IF DetectAbnormalPrice(history, SymbolOf("USDC"))
        THEN [ state |-> [ stored EXCEPT !.last_abnormal_time = << now >> ],
               allowed |-> FALSE, reason |-> "abnormal_usdc" ]
        ELSE [ state |-> stored, allowed |-> TRUE, reason |-> "none" ]

\* AbnormalPriceController::reset
ApcReset(c) == [ price_history |-> << >>, last_abnormal_time |-> << >> ]

\* AbnormalPriceController::new
ApcNew == [ price_history |-> << >>, last_abnormal_time |-> << >> ]

NoApcOpportunity == [ buy_quote |-> "none", buy_price |-> 0, sell_price |-> 0 ]

\* The check_opportunity call just made, with what it found: the length of
\* the ring, the timer, and the time of the latest denial for an abnormal
\* price since the controller was new or reset.
ApcCall(o, allowed, reason) ==
    [ op |-> "check", opportunity |-> o, allowed |-> allowed, reason |-> reason,
      now |-> clock.now, len_before |-> Len(apc.ctl.price_history),
      timer_before |-> apc.ctl.last_abnormal_time,
      abnormal_before |-> apc.abnormal_at ]

\* Any other call just made.
ApcOther(op) ==
    [ op |-> op, opportunity |-> NoApcOpportunity, allowed |-> TRUE, reason |-> "none",
      now |-> 0, len_before |-> 0, timer_before |-> << >>, abnormal_before |-> << >> ]

ApcFrame == << engineVars, sel, startup, dll, freq, ctl_log,
               expo, pair_blacklist, tw, emitted, apc_run, freq_run,
    moreVars >>

ApcInit ==
    /\ EngineInit /\ db_manager = FALSE
    /\ clock = NoClock
    /\ apc = [ ctl |-> ApcNew, abnormal_at |-> << >>,
               last |-> ApcOther("none") ]
    /\ sel = NoSel /\ startup = NoStartup /\ dll = NoDll /\ freq = NoFreq
    /\ ctl_log = << >>
    /\ expo = << >> /\ pair_blacklist = << >> /\ tw = << >> /\ emitted = << >>
    /\ apc_run = << >> /\ freq_run = << >>
    /\ MoreIdle

\* AbnormalPriceController::check_opportunity
ApcCheck ==
    /\ \E o \in ApcOpportunities :
          LET c == ApcCheckOpportunity(apc.ctl, o, clock.now)
          IN  apc' = [ ctl |-> c.state,
                       abnormal_at |-> IF c.reason \in {"abnormal_usdt", "abnormal_usdc"}
                                       THEN << clock.now >> ELSE apc.abnormal_at,
                       last |-> ApcCall(o, c.allowed, c.reason) ]
    /\ UNCHANGED clock
    /\ UNCHANGED ApcFrame

\* AbnormalPriceController::record_result: Ok(()) and nothing else
ApcRecord ==
    /\ apc' = [ apc EXCEPT !.last = ApcOther("record") ]
    /\ UNCHANGED clock
    /\ UNCHANGED ApcFrame

\* AbnormalPriceController::reset
ApcResetCall ==
    /\ apc' = [ ctl |-> ApcReset(apc.ctl), abnormal_at |-> << >>,
                last |-> ApcOther("reset") ]
    /\ UNCHANGED clock
    /\ UNCHANGED ApcFrame

\* A second passes.
ApcSecond ==
    /\ clock.now < MaxTime
    /\ clock' = [ clock EXCEPT !.now = @ + 1 ]
    /\ UNCHANGED apc
    /\ UNCHANGED ApcFrame

ApcNext == ApcCheck \/ ApcRecord \/ ApcResetCall \/ ApcSecond

ApcSpec == ApcInit /\ [][ApcNext]_vars

(***************************************************************************)
(* The ExposureController on its own, with the exchange account it asks    *)
(* for balances: check_opportunity, record_result and reset called one     *)
(* after the other while the exchange's balances move.                     *)
(***************************************************************************)
\* controller.set_max_exposure("BTC", dec!(2))
MaxExposure == 2

Assets == { "BTC", "ETH" }

\* Balances the exchange reports: dec!(1.0) and dec!(1.5).
Balances == { DecFrom(1), DecFrom(1) + DecUnit \div 2 }

\* Opportunities handed to check_opportunity: what the controller reads of
\* them (a trade of 1 and of 0.2 units of the base asset).
ExpoOpportunities ==
    { [ base_asset |-> a, buy_price |-> DecFrom(5), max_trade_amount |-> m ] :
        a \in Assets, m \in { DecFrom(5), DecFrom(1) } }

\* Results handed to record_result: what the controller reads of them.
ExpoResults ==
    { [ base_asset |-> a, status |-> s ] : a \in Assets, s \in { "Completed", "Failed" } }

\* HashMap::insert
MapInsert(map, key, value) ==
    [ k \in DOMAIN map \cup { key } |-> IF k = key THEN value ELSE map[k] ]

\* HashMap::new / HashMap::clear
EmptyMap == [ k \in {} |-> 0 ]

\* update_positions, every get_account_balance returning Ok: the snapshot of
\* each asset with a configured limit is overwritten with the balance
UpdatePositions(positions, max_exposures, balances) ==
    [ a \in DOMAIN positions \cup DOMAIN max_exposures |->
        IF a \in DOMAIN max_exposures THEN balances[a] ELSE positions[a] ]

\* update_positions when get_account_balance returns Err for an asset: the
\* assets iterated before it (updated) are overwritten, the others are not
UpdatePositionsUntil(positions, updated, balances) ==
    [ a \in DOMAIN positions \cup updated |->
        IF a \in updated THEN balances[a] ELSE positions[a] ]

\* check_exposure_after_trade: TRUE for Ok((true, None))
CheckExposureAfterTrade(positions, max_exposures, asset, change) ==
    LET current_position == IF asset \in DOMAIN positions THEN positions[asset] ELSE 0
        new_position == current_position + change
    IN  ~ ( asset \in DOMAIN max_exposures /\ Abs(new_position) > max_exposures[asset] )

\* check_opportunity deciding on the snapshot it finds, without update_positions.
ExpoCheckStored(e, o) ==
    [ positions |-> e.current_positions,
      allowed |-> CheckExposureAfterTrade(e.current_positions, e.max_exposures, o.base_asset,
                                          DecDiv(o.max_trade_amount, o.buy_price)) ]

\* ExposureController::check_opportunity, every balance query returning Ok:
\* the snapshot left and the answer
ExpoCheckOpportunity(e, o) ==
    LET positions == UpdatePositions(e.current_positions, e.max_exposures, e.balances)
        trade_amount_base == DecDiv(o.max_trade_amount, o.buy_price)
    IN  [ positions |-> positions,
          allowed |-> CheckExposureAfterTrade(positions, e.max_exposures, o.base_asset,
                                              trade_amount_base) ]

\* ExposureController::record_result
ExpoRecordResult(positions, r) ==
    IF r.status = "Completed" /\ r.base_asset \notin DOMAIN positions
    THEN MapInsert(positions, r.base_asset, 0)
    ELSE positions

\* ExposureController::reset
ExpoReset(positions) == EmptyMap

\* Configurations: the assets given a limit by set_max_exposure.
ExpoConfigs == { [ a \in S |-> DecFrom(MaxExposure) ] : S \in SUBSET Assets }

NoExpoOpportunity == [ base_asset |-> "none", buy_price |-> 0, max_trade_amount |-> 0 ]

\* The call just made, with the snapshot it found, the assets whose balance it
\* queried and the exchange's balances at the time.
ExpoCall(op, o, outcome, queried) ==
    [ op |-> op, opportunity |-> o, outcome |-> outcome, queried |-> queried,
      balances |-> expo.balances, positions_before |-> expo.current_positions ]

ExpoFrame == << engineVars, sel, startup, clock, dll, freq, ctl_log,
                apc, pair_blacklist, tw, emitted, apc_run, freq_run,
    moreVars >>

\* ExposureController::new followed by the set_max_exposure calls
ExpoInit ==
    /\ EngineInit /\ db_manager = FALSE
    /\ \E cfg \in ExpoConfigs, b \in [ Assets -> Balances ] :
          expo = [ max_exposures |-> cfg, current_positions |-> EmptyMap, balances |-> b,
                   last |-> [ op |-> "none", opportunity |-> NoExpoOpportunity,
                              outcome |-> "none", queried |-> {}, balances |-> b,
                              positions_before |-> EmptyMap ] ]
    /\ sel = NoSel /\ startup = NoStartup /\ clock = NoClock /\ dll = NoDll /\ freq = NoFreq
    /\ ctl_log = << >>
    /\ apc = << >> /\ pair_blacklist = << >> /\ tw = << >> /\ emitted = << >>
    /\ apc_run = << >> /\ freq_run = << >>
    /\ MoreIdle

\* check_opportunity, every get_account_balance returning Ok
ExpoCheck ==
    /\ \E o \in ExpoOpportunities :
          LET c == ExpoCheckOpportunity(expo, o)
          IN  expo' = [ expo EXCEPT
                          !.current_positions = c.positions,
                          !.last = ExpoCall("check", o,
                                            IF c.allowed THEN "allowed" ELSE "denied",
                                            DOMAIN expo.max_exposures) ]
    /\ UNCHANGED ExpoFrame

\* check_opportunity, get_account_balance returning Err for one asset after
\* the assets the HashMap iterates before it have been updated: `?` returns it
ExpoCheckError ==
    /\ \E o \in ExpoOpportunities, failed \in DOMAIN expo.max_exposures :
       \E updated \in SUBSET (DOMAIN expo.max_exposures \ { failed }) :
          expo' = [ expo EXCEPT
                      !.current_positions = UpdatePositionsUntil(@, updated, expo.balances),
                      !.last = ExpoCall("check", o, "err", updated \cup { failed }) ]
    /\ UNCHANGED ExpoFrame

\* ExposureController::record_result
ExpoRecord ==
    /\ \E r \in ExpoResults :
          expo' = [ expo EXCEPT
                      !.current_positions = ExpoRecordResult(@, r),
                      !.last = ExpoCall("record", NoExpoOpportunity, "none", {}) ]
    /\ UNCHANGED ExpoFrame

\* ExposureController::reset
ExpoResetCall ==
    /\ expo' = [ expo EXCEPT !.current_positions = ExpoReset(@),
                             !.last = ExpoCall("reset", NoExpoOpportunity, "none", {}) ]
    /\ UNCHANGED ExpoFrame

\* The exchange account's balance of an asset changes.
ExpoBalanceChanges ==
    /\ \E a \in Assets, b \in Balances :
          /\ expo.balances[a] # b
          /\ expo' = [ expo EXCEPT !.balances[a] = b ]
    /\ UNCHANGED ExpoFrame

ExpoNext == ExpoCheck \/ ExpoCheckError \/ ExpoRecord \/ ExpoResetCall \/ ExpoBalanceChanges

ExpoSpec == ExpoInit /\ [][ExpoNext]_vars

(***************************************************************************)
(* The PairBlacklistController on its own: its four list operations,       *)
(* check_opportunity, record_result and reset called one after the other.  *)
(* Pairs are the strings format!("{}{}", asset, quote) builds.             *)
(***************************************************************************)
\* List operations explored.
MaxListOps == 3

\* Base assets of the opportunities and of the base-asset operations.
BaseAssets == { "BTC", "ETH" }

\* Arguments (asset, quote) of add_to_blacklist and remove_from_blacklist.
PairArgs == { << "BTC", "USDT" >>, << "BTC", "USDC" >>, << "ETH", "USDT" >>,
              << "BTCU", "SDT" >> }

\* format!("{}{}", asset, quote)
PairOf(asset, quote) == asset \o quote

\* PairBlacklistController::add_to_blacklist
BlAdd(set, asset, quote) == set \cup { PairOf(asset, quote) }

\* PairBlacklistController::add_base_asset_to_blacklist
BlAddBase(set, base_asset) ==
    set \cup { PairOf(base_asset, "USDT"), PairOf(base_asset, "USDC") }

\* PairBlacklistController::remove_from_blacklist
BlRemove(set, asset, quote) == set \ { PairOf(asset, quote) }

\* PairBlacklistController::remove_base_asset_from_blacklist
BlRemoveBase(set, base_asset) ==
    set \ { PairOf(base_asset, "USDT"), PairOf(base_asset, "USDC") }

\* check_opportunity denying only when both pairs are listed.
BlCheckBoth(set, o) ==
    ~ ( PairOf(o.base_asset, "USDT") \in set /\ PairOf(o.base_asset, "USDC") \in set )

\* PairBlacklistController::check_opportunity: TRUE for Ok((true, None))
BlCheckOpportunity(set, o) ==
    ~ ( PairOf(o.base_asset, "USDT") \in set \/ PairOf(o.base_asset, "USDC") \in set )

\* PairBlacklistController::reset
BlReset(set) == {}

\* Opportunities handed to check_opportunity: what identifies their pairs.
BlOpportunities == { [ base_asset |-> a, buy_quote |-> q ] : a \in BaseAssets, q \in QuoteCurrency }

NoBlOpportunity == [ base_asset |-> "none", buy_quote |-> "none" ]

NoBlCall == [ op |-> "none", opportunity |-> NoBlOpportunity, allowed |-> TRUE ]

BlFrame == << engineVars, sel, startup, clock, dll, freq, ctl_log,
              apc, expo, tw, emitted, apc_run, freq_run,
    moreVars >>

\* PairBlacklistController::new. ops is the list operations made so far.
BlInit ==
    /\ EngineInit /\ db_manager = FALSE
    /\ pair_blacklist = [ blacklist |-> {}, ops |-> << >>, last |-> NoBlCall ]
    /\ sel = NoSel /\ startup = NoStartup /\ clock = NoClock /\ dll = NoDll /\ freq = NoFreq
    /\ ctl_log = << >>
    /\ apc = << >> /\ expo = << >> /\ tw = << >> /\ emitted = << >>
    /\ apc_run = << >> /\ freq_run = << >>
    /\ MoreIdle

\* A list operation op with arguments arg has left the set `set`.
BlListed(set, op, asset, quote) ==
    /\ Len(pair_blacklist.ops) < MaxListOps
    /\ pair_blacklist' = [ blacklist |-> set,
                           ops |-> Append(pair_blacklist.ops,
                                          [ op |-> op, asset |-> asset, quote |-> quote ]),
                           last |-> NoBlCall ]
    /\ UNCHANGED BlFrame

BlAddToBlacklist ==
    \E arg \in PairArgs :
        BlListed(BlAdd(pair_blacklist.blacklist, arg[1], arg[2]), "add", arg[1], arg[2])

BlAddBaseAsset ==
    \E a \in BaseAssets :
        BlListed(BlAddBase(pair_blacklist.blacklist, a), "add_base", a, "")

BlRemoveFromBlacklist ==
    \E arg \in PairArgs :
        BlListed(BlRemove(pair_blacklist.blacklist, arg[1], arg[2]), "remove", arg[1], arg[2])

BlRemoveBaseAsset ==
    \E a \in BaseAssets :
        BlListed(BlRemoveBase(pair_blacklist.blacklist, a), "remove_base", a, "")

\* PairBlacklistController::reset
BlResetCall == BlListed(BlReset(pair_blacklist.blacklist), "reset", "", "")

\* PairBlacklistController::check_opportunity
BlCheck ==
    /\ \E o \in BlOpportunities :
          pair_blacklist' =
              [ pair_blacklist EXCEPT
                  !.last = [ op |-> "check", opportunity |-> o,
                             allowed |-> BlCheckOpportunity(pair_blacklist.blacklist, o) ] ]
    /\ UNCHANGED BlFrame

\* PairBlacklistController::record_result: Ok(()) and nothing else
BlRecord ==
    /\ pair_blacklist' = [ pair_blacklist EXCEPT !.last = [ NoBlCall EXCEPT !.op = "record" ] ]
    /\ UNCHANGED BlFrame

BlNext ==
    \/ BlAddToBlacklist
    \/ BlAddBaseAsset
    \/ BlRemoveFromBlacklist
    \/ BlRemoveBaseAsset
    \/ BlResetCall
    \/ BlCheck
    \/ BlRecord

BlSpec == BlInit /\ [][BlNext]_vars

(***************************************************************************)
(* The TradingTimeWindowController on its own: check_opportunity,          *)
(* record_result and reset called one after the other while the local      *)
(* clock (Local::now) shows any day of the week and time of day.           *)
(***************************************************************************)
\* NaiveTime::from_hms_opt(hour, min, sec), as seconds from midnight
NaiveTime(hour, min, sec) == hour * 3600 + min * 60 + sec

\* Windows (start_hour, start_min, end_hour, end_min) the controller is built
\* with: 9:30-16:00 as in the test, the same wrapping midnight, and one instant.
TwWindows == { << 9, 30, 16, 0 >>, << 16, 0, 9, 30 >>, << 9, 30, 9, 30 >> }

\* Local times of day at which calls are made.
TimesOfDay == { NaiveTime(0, 0, 0), NaiveTime(9, 29, 59), NaiveTime(9, 30, 0),
                NaiveTime(16, 0, 0), NaiveTime(16, 0, 1) }

\* now.weekday().number_from_monday(): Monday, Friday, Saturday, Sunday
Weekdays == { 1, 5, 6, 7 }

\* TradingTimeWindowController::new, for valid hours and minutes
TwNew(window, trade_on_weekends) ==
    [ start_time |-> NaiveTime(window[1], window[2], 0),
      end_time |-> NaiveTime(window[3], window[4], 0),
      trade_on_weekends |-> trade_on_weekends ]

\* is_within_trading_hours taking Sunday alone for the weekend.
IsWithinTradingHoursSundayOnly(c, weekday, current_time) ==
    IF weekday >= 7 /\ ~ c.trade_on_weekends
    THEN FALSE
    ELSE IF c.start_time <= c.end_time
         THEN current_time >= c.start_time /\ current_time <= c.end_time
         ELSE current_time >= c.start_time \/ current_time <= c.end_time

\* TradingTimeWindowController::is_within_trading_hours: TRUE for (true, "")
IsWithinTradingHours(c, weekday, current_time) ==
    LET is_weekend == weekday >= 6
    IN  IF is_weekend /\ ~ c.trade_on_weekends
        THEN FALSE
        ELSE IF c.start_time <= c.end_time
             THEN current_time >= c.start_time /\ current_time <= c.end_time
             ELSE current_time >= c.start_time \/ current_time <= c.end_time

\* The call just made and the local day and time it was made at.
TwCall(op, allowed) ==
    [ op |-> op, allowed |-> allowed, weekday |-> tw.weekday, time |-> tw.time ]

TwFrame == << engineVars, sel, startup, clock, dll, freq, ctl_log,
              apc, expo, pair_blacklist, emitted, apc_run, freq_run,
    moreVars >>

\* TradingTimeWindowController::new. built keeps what it was built with.
TwInit ==
    /\ EngineInit /\ db_manager = FALSE
    /\ \E w \in TwWindows, trade_on_weekends \in BOOLEAN, d \in Weekdays, t \in TimesOfDay :
          tw = [ ctl |-> TwNew(w, trade_on_weekends),
                 built |-> [ window |-> w, trade_on_weekends |-> trade_on_weekends ],
                 weekday |-> d, time |-> t,
                 last |-> [ op |-> "none", allowed |-> TRUE, weekday |-> d, time |-> t ] ]
    /\ sel = NoSel /\ startup = NoStartup /\ clock = NoClock /\ dll = NoDll /\ freq = NoFreq
    /\ ctl_log = << >>
    /\ apc = << >> /\ expo = << >> /\ pair_blacklist = << >> /\ emitted = << >>
    /\ apc_run = << >> /\ freq_run = << >>
    /\ MoreIdle

\* TradingTimeWindowController::check_opportunity
TwCheck ==
    /\ tw' = [ tw EXCEPT !.last = TwCall("check", IsWithinTradingHours(tw.ctl, tw.weekday, tw.time)) ]
    /\ UNCHANGED TwFrame

\* TradingTimeWindowController::record_result: Ok(()) and nothing else
TwRecord ==
    /\ tw' = [ tw EXCEPT !.last = TwCall("record", TRUE) ]
    /\ UNCHANGED TwFrame

\* TradingTimeWindowController::reset: Ok(()) and nothing else
TwReset ==
    /\ tw' = [ tw EXCEPT !.last = TwCall("reset", TRUE) ]
    /\ UNCHANGED TwFrame

\* The local clock shows another day or time.
TwClock ==
    /\ \E d \in Weekdays, t \in TimesOfDay :
          /\ << d, t >> # << tw.weekday, tw.time >>
          /\ tw' = [ tw EXCEPT !.weekday = d, !.time = t ]
    /\ UNCHANGED TwFrame

TwNext == TwCheck \/ TwRecord \/ TwReset \/ TwClock

TwSpec == TwInit /\ [][TwNext]_vars

(***************************************************************************)
(* The opportunities the strategies and the engine's fallback build: each  *)
(* find_opportunity on its own, over the spot prices and over what the     *)
(* strategy has measured (volatility, order-book slippage and liquidity,   *)
(* trends), which are taken as inputs.                                     *)
(***************************************************************************)
\* Price points the TWAP strategy keeps (100 in the code).
MaxTwapHistory == 2

\* Spot prices handed to find_opportunity.
EmitPrices == { 0, DecFrom(3), DecFrom(3) + 3 }

\* SlippageControlStrategySettings::default: max_slippage_pct = 0.5
MaxSlippagePct == DecUnit \div 2

\* Values of max_vol (percent) calculate_volatility leads to.
Volatilities == { 0, DecFrom(5) }

\* Slippages (percent) analyze_order_book_depth reports.
DepthSlippages == { 0, DecFrom(1) }

TrendDirection == { "Up", "Down", "Sideways" }

\* What calculate_trend reports of a market: direction and strength (percent).
TrendReadings ==
    { [ trend |-> "Sideways", strength |-> 0 ],
      [ trend |-> "Up", strength |-> DecFrom(3) ],
      [ trend |-> "Down", strength |-> DecFrom(1) + DecUnit \div 2 ] }

\* TimeWeightedAverageStrategy::record_price
TwapRecordPrice(history, usdt_price, usdc_price) ==
    LET pushed == Append(history, << usdt_price, usdc_price >>)
    IN  IF Len(pushed) > MaxTwapHistory THEN Tail(pushed) ELSE pushed

\* calculate_twap, `relevant_prices.iter().map(..).sum()` over the k latest points
RECURSIVE SumLatest(_, _, _)
SumLatest(history, k, side) ==
    IF k = 0 THEN 0
    ELSE history[Len(history) - k + 1][side] + SumLatest(history, k - 1, side)

\* TimeWeightedAverageStrategy::find_opportunity, the k latest price points
\* (the one just recorded among them) lying in the last 300 seconds
TwapFind(history, k) ==
    LET twap_usdt == DecDiv(SumLatest(history, k, 1), DecFrom(k))
        twap_usdc == DecDiv(SumLatest(history, k, 2), DecFrom(k))
        slice_amount == DecDiv(DecFrom(MaxTradeAmountUsdt), DecFrom(TwapSlices))
    IN  IF twap_usdt < twap_usdc
        THEN NewOpportunity("USDT", "USDC", twap_usdt, twap_usdc, slice_amount)
        ELSE NewOpportunity("USDC", "USDT", twap_usdc, twap_usdt, slice_amount)

\* adjust_for_volatility shifting the prices and keeping the profit figures
\* ArbitrageOpportunity::new computed.
AdjustKeepsProfit(o, max_vol) ==
    LET volatility_factor == DecUnit + DecDiv(max_vol, DecFrom(100))
        shift == DecDiv(DecDiv(MaxSlippagePct, DecFrom(100)), volatility_factor)
    IN  IF o.buy_quote # o.sell_quote
        THEN [ o EXCEPT !.buy_price = DecMul(o.buy_price, DecUnit - shift),
                        !.sell_price = DecMul(o.sell_price, DecUnit + shift) ]
        ELSE o

\* SlippageControlStrategy::adjust_for_volatility
AdjustForVolatility(o, max_vol) ==
    LET volatility_factor == DecUnit + DecDiv(max_vol, DecFrom(100))
        shift == DecDiv(DecDiv(MaxSlippagePct, DecFrom(100)), volatility_factor)
        buy_price == IF o.buy_quote # o.sell_quote
                     THEN DecMul(o.buy_price, DecUnit - shift) ELSE o.buy_price
        sell_price == IF o.buy_quote # o.sell_quote
                      THEN DecMul(o.sell_price, DecUnit + shift) ELSE o.sell_price
        price_diff == sell_price - buy_price
    IN  [ o EXCEPT !.buy_price = buy_price,
                   !.sell_price = sell_price,
                   !.price_diff = price_diff,
                   !.profit_percentage =
                       IF buy_price = 0 THEN 0
                       ELSE DecMul(DecDiv(price_diff, buy_price), DecFrom(100)) ]

\* SlippageControlStrategy::find_opportunity
SlippageFind(usdt_price, usdc_price, max_vol) ==
    AdjustForVolatility(
        IF usdt_price < usdc_price
        THEN NewOpportunity("USDT", "USDC", usdt_price, usdc_price, DecFrom(MaxTradeAmountUsdt))
        ELSE NewOpportunity("USDC", "USDT", usdc_price, usdt_price, DecFrom(MaxTradeAmountUsdt)),
        max_vol)

\* OrderBookDepthStrategy::find_opportunity once the four order-book analyses
\* returned: s gives the slippages, liquid says the liquidity suffices
DepthFind(usdt_price, usdc_price, s, liquid) ==
    LET usdt_effective_buy_price ==
            DecMul(usdt_price, DecUnit + DecDiv(s.usdt_buy, DecFrom(100)))
        usdt_effective_sell_price ==
            DecMul(usdt_price, DecUnit - DecDiv(s.usdt_sell, DecFrom(100)))
        usdc_effective_buy_price ==
            DecMul(usdc_price, DecUnit + DecDiv(s.usdc_buy, DecFrom(100)))
        usdc_effective_sell_price ==
            DecMul(usdc_price, DecUnit - DecDiv(s.usdc_sell, DecFrom(100)))
    IN  IF ~ liquid THEN NoOpportunity
        ELSE IF usdt_effective_buy_price < usdc_effective_sell_price
        THEN NewOpportunity("USDT", "USDC", usdt_effective_buy_price,
                            usdc_effective_sell_price, DecFrom(MaxTradeAmountUsdt))
        ELSE IF usdc_effective_buy_price < usdt_effective_sell_price
        THEN NewOpportunity("USDC", "USDT", usdc_effective_buy_price,
                            usdt_effective_sell_price, DecFrom(MaxTradeAmountUsdt))
        ELSE NoOpportunity

\* TrendFollowingStrategy::find_opportunity, `if usdt_usdc_strength > dec!(1.0)`:
\* the amount reduced with the trend's strength, to a fifth at the least
TrendAmount(max_trade_amount, strength) ==
    IF strength > DecUnit
    THEN LET reduction_factor == DecUnit - DecDiv(strength - DecUnit, DecFrom(10))
             adjusted_amount == DecMul(max_trade_amount, reduction_factor)
             floor == DecDiv(max_trade_amount, DecFrom(5))
         IN  IF adjusted_amount < floor THEN floor ELSE adjusted_amount
    ELSE max_trade_amount

\* find_opportunity giving up on an unfavourable trend stronger than 1 %.
TrendFindAnyTrend(usdt_price, usdc_price, t, spike) ==
    LET max_trade_amount == DecFrom(MaxTradeAmountUsdt)
        strength == IF t.usdt_strength > t.usdc_strength
                    THEN t.usdt_strength ELSE t.usdc_strength
        amount == TrendAmount(max_trade_amount, strength)
    IN  IF spike THEN NoOpportunity
        ELSE IF usdt_price < usdc_price
        THEN IF \/ t.usdt_trend = "Up" /\ t.usdt_strength > DecFrom(1)
                \/ t.usdc_trend = "Down" /\ t.usdc_strength > DecFrom(1)
             THEN NoOpportunity
             ELSE [ NewOpportunity("USDT", "USDC", usdt_price, usdc_price, max_trade_amount)
                      EXCEPT !.max_trade_amount = amount ]
        ELSE IF \/ t.usdc_trend = "Up" /\ t.usdc_strength > DecFrom(1)
                \/ t.usdt_trend = "Down" /\ t.usdt_strength > DecFrom(1)
             THEN NoOpportunity
             ELSE [ NewOpportunity("USDC", "USDT", usdc_price, usdt_price, max_trade_amount)
                      EXCEPT !.max_trade_amount = amount ]

\* TrendFollowingStrategy::find_opportunity once the trends are calculated:
\* t gives each market's direction and strength, spike a recent volatility spike
TrendFind(usdt_price, usdc_price, t, spike) ==
    LET max_trade_amount == DecFrom(MaxTradeAmountUsdt)
        strength == IF t.usdt_strength > t.usdc_strength
                    THEN t.usdt_strength ELSE t.usdc_strength
        amount == TrendAmount(max_trade_amount, strength)
    IN  IF spike THEN NoOpportunity
        ELSE IF usdt_price < usdc_price
        THEN IF \/ t.usdt_trend = "Up" /\ t.usdt_strength > DecFrom(2)
                \/ t.usdc_trend = "Down" /\ t.usdc_strength > DecFrom(2)
             THEN NoOpportunity
             ELSE [ NewOpportunity("USDT", "USDC", usdt_price, usdc_price, max_trade_amount)
                      EXCEPT !.max_trade_amount = amount ]
        ELSE IF \/ t.usdc_trend = "Up" /\ t.usdc_strength > DecFrom(2)
                \/ t.usdt_trend = "Down" /\ t.usdt_strength > DecFrom(2)
             THEN NoOpportunity
             ELSE [ NewOpportunity("USDC", "USDT", usdc_price, usdt_price, max_trade_amount)
                      EXCEPT !.max_trade_amount = amount ]

EmitFrame == << engineVars, sel, startup, clock, dll, freq, ctl_log,
                apc, expo, pair_blacklist, tw, apc_run, freq_run,
    moreVars >>

\* The strategies as constructed: no price point recorded, nothing emitted.
EmitInit ==
    /\ EngineInit /\ db_manager = FALSE
    /\ emitted = [ twap_history |-> << >>, by |-> "none", opportunity |-> NoOpportunity ]
    /\ sel = NoSel /\ startup = NoStartup /\ clock = NoClock /\ dll = NoDll /\ freq = NoFreq
    /\ ctl_log = << >>
    /\ apc = << >> /\ expo = << >> /\ pair_blacklist = << >> /\ tw = << >>
    /\ apc_run = << >> /\ freq_run = << >>
    /\ MoreIdle

\* find_opportunity of the strategy `by` has returned Ok(Some(o)), or Ok(None)
\* for o = NoOpportunity.
Emitted(by, o) ==
    /\ emitted' = [ emitted EXCEPT !.by = by, !.opportunity = o ]
    /\ UNCHANGED EmitFrame

\* SimpleArbitrageStrategy::find_opportunity
EmitSimple ==
    \E usdt_price \in EmitPrices, usdc_price \in EmitPrices :
        Emitted("Simple", SimpleFind(usdt_price, usdc_price))

\* TimeWeightedAverageStrategy::find_opportunity
EmitTwap ==
    \E usdt_price \in EmitPrices, usdc_price \in EmitPrices :
        LET history == TwapRecordPrice(emitted.twap_history, usdt_price, usdc_price)
        IN  \E k \in 1..Len(history) :
               /\ emitted' = [ twap_history |-> history, by |-> "Twap",
                               opportunity |-> TwapFind(history, k) ]
               /\ UNCHANGED EmitFrame

\* SlippageControlStrategy::find_opportunity
EmitSlippage ==
    \E usdt_price \in EmitPrices, usdc_price \in EmitPrices, max_vol \in Volatilities :
        Emitted("SlippageControl", SlippageFind(usdt_price, usdc_price, max_vol))

\* OrderBookDepthStrategy::find_opportunity (a usdt price of 0 makes
\* `max_trade_amount / usdt_price.price` panic: nothing is returned)
EmitDepth ==
    \E usdt_price \in EmitPrices \ { 0 }, usdc_price \in EmitPrices, liquid \in BOOLEAN :
        \E s \in IF liquid
                 THEN [ { "usdt_buy", "usdt_sell", "usdc_buy", "usdc_sell" } -> DepthSlippages ]
                 ELSE [ { "usdt_buy", "usdt_sell", "usdc_buy", "usdc_sell" } -> { 0 } ] :
            Emitted("OrderBookDepth", DepthFind(usdt_price, usdc_price, s, liquid))

\* TrendFollowingStrategy::find_opportunity
EmitTrend ==
    \E usdt_price \in EmitPrices, usdc_price \in EmitPrices, spike \in BOOLEAN :
      \E usdt \in IF spike THEN { [ trend |-> "Up", strength |-> DecFrom(3) ] } ELSE TrendReadings,
         usdc \in IF spike THEN { [ trend |-> "Sideways", strength |-> 0 ] } ELSE TrendReadings :
        Emitted("TrendFollowing",
                TrendFind(usdt_price, usdc_price,
                          [ usdt_trend |-> usdt.trend, usdt_strength |-> usdt.strength,
                            usdc_trend |-> usdc.trend, usdc_strength |-> usdc.strength ],
                          spike))

\* find_best_arbitrage_opportunity, `if best_opportunity.is_none()`
EmitFallback ==
    \E usdt_price \in EmitPrices, usdc_price \in EmitPrices :
        Emitted("fallback", FallbackOpportunity(usdt_price, usdc_price))

EmitNext ==
    \/ EmitSimple
    \/ EmitTwap
    \/ EmitSlippage
    \/ EmitDepth
    \/ EmitTrend
    \/ EmitFallback

EmitSpec == EmitInit /\ [][EmitNext]_vars

(***************************************************************************)
(* AbnormalPriceController under two concurrent calls, one step per lock   *)
(* acquisition: a check_opportunity against a reset or a second            *)
(* check_opportunity, on a controller earlier calls have used.  The two    *)
(* calls run within one second.                                            *)
(***************************************************************************)
\* check_opportunity calls made before the concurrent ones.
MaxEarlierChecks == 1

\* Opportunities of the calls: equal prices, the USDC price a fifth higher,
\* the same bought with USDC.
RunOpportunities ==
    { [ buy_quote |-> "USDT", buy_price |-> DecFrom(100), sell_price |-> DecFrom(100) ],
      [ buy_quote |-> "USDT", buy_price |-> DecFrom(100), sell_price |-> DecFrom(120) ],
      [ buy_quote |-> "USDC", buy_price |-> DecFrom(120), sell_price |-> DecFrom(100) ] }

\* A call in flight: where it stands and, once returned, its answer.
RunCall(op, o) ==
    [ op |-> op, opportunity |-> o, pc |-> IF op = "check" THEN "add_buy" ELSE "clear",
      allowed |-> TRUE, reason |-> "none" ]

\* The call has returned (allowed, reason).
Returned(call, allowed, reason) ==
    [ call EXCEPT !.pc = "done", !.allowed = allowed, !.reason = reason ]

ApcRunFrame == << engineVars, sel, startup, clock, dll, freq, ctl_log,
                  apc, expo, pair_blacklist, tw, emitted, freq_run,
    moreVars >>

\* AbnormalPriceController::new; no call made yet.
ApcRunInit ==
    /\ EngineInit /\ db_manager = FALSE
    /\ apc_run = [ ctl |-> ApcNew, now |-> 0, earlier |-> 0, from |-> ApcNew,
                   history_held |-> 0, calls |-> << >> ]
    /\ sel = NoSel /\ startup = NoStartup /\ clock = NoClock /\ dll = NoDll /\ freq = NoFreq
    /\ ctl_log = << >>
    /\ apc = << >> /\ expo = << >> /\ pair_blacklist = << >> /\ tw = << >>
    /\ emitted = << >> /\ freq_run = << >>
    /\ MoreIdle

\* check_opportunity, called alone
RunEarlierCheck ==
    /\ apc_run.calls = << >>
    /\ apc_run.earlier < MaxEarlierChecks
    /\ \E o \in RunOpportunities :
          apc_run' = [ apc_run EXCEPT
                         !.ctl = ApcCheckOpportunity(apc_run.ctl, o, apc_run.now).state,
                         !.earlier = @ + 1 ]
    /\ UNCHANGED ApcRunFrame

\* A second passes between calls.
RunSecond ==
    /\ apc_run.calls = << >>
    /\ apc_run.now < CooldownPeriod
    /\ apc_run' = [ apc_run EXCEPT !.now = @ + 1 ]
    /\ UNCHANGED ApcRunFrame

\* Two tasks call the controller at once: check_opportunity, and reset or a
\* second check_opportunity.
RunBegin ==
    /\ apc_run.calls = << >>
    /\ \E o \in RunOpportunities :
          \E second \in { RunCall("reset", NoApcOpportunity) }
                          \cup { RunCall("check", p) : p \in RunOpportunities } :
             apc_run' = [ apc_run EXCEPT !.from = apc_run.ctl,
                                         !.calls = << RunCall("check", o), second >> ]
    /\ UNCHANGED ApcRunFrame

\* The call i is at pc, and price_history can be locked if the step locks it.
RunAt(i, at, locks_history) ==
    /\ apc_run.calls # << >>
    /\ apc_run.calls[i].pc = at
    /\ locks_history => apc_run.history_held = 0

\* check_opportunity, `self.add_price(.., opportunity.buy_price)`
RunAddBuyPrice(i) ==
    /\ RunAt(i, "add_buy", TRUE)
    /\ LET o == apc_run.calls[i].opportunity
       IN  apc_run' = [ apc_run EXCEPT
                          !.ctl.price_history = AddPrice(@, SymbolOf(o.buy_quote), o.buy_price),
                          !.calls[i].pc = "add_sell" ]
    /\ UNCHANGED ApcRunFrame

\* check_opportunity, `self.add_price(.., opportunity.sell_price)`
RunAddSellPrice(i) ==
    /\ RunAt(i, "add_sell", TRUE)
    /\ LET o == apc_run.calls[i].opportunity
           sell_quote == IF o.buy_quote = "USDT" THEN "USDC" ELSE "USDT"
       IN  apc_run' = [ apc_run EXCEPT
                          !.ctl.price_history = AddPrice(@, SymbolOf(sell_quote), o.sell_price),
                          !.calls[i].pc = "cooldown" ]
    /\ UNCHANGED ApcRunFrame

\* check_opportunity, `if self.is_in_cooldown()`
RunIsInCooldown(i) ==
    /\ RunAt(i, "cooldown", FALSE)
    /\ apc_run' = [ apc_run EXCEPT
                      !.calls[i] =
                          IF IsInCooldown(apc_run.ctl.last_abnormal_time, apc_run.now)
                          THEN Returned(@, FALSE, "cooldown")
                          ELSE [ @ EXCEPT !.pc = "detect_usdt" ] ]
    /\ UNCHANGED ApcRunFrame

\* check_opportunity, `self.detect_abnormal_price(&usdt_symbol)`
RunDetectUsdt(i) ==
    /\ RunAt(i, "detect_usdt", TRUE)
    /\ apc_run' = [ apc_run EXCEPT
                      !.calls[i].pc =
                          IF DetectAbnormalPrice(apc_run.ctl.price_history, SymbolOf("USDT"))
                          THEN "set_usdt" ELSE "detect_usdc" ]
    /\ UNCHANGED ApcRunFrame

\* check_opportunity, `self.detect_abnormal_price(&usdc_symbol)`
RunDetectUsdc(i) ==
    /\ RunAt(i, "detect_usdc", TRUE)
    /\ apc_run' = [ apc_run EXCEPT
                      !.calls[i] =
                          IF DetectAbnormalPrice(apc_run.ctl.price_history, SymbolOf("USDC"))
                          THEN [ @ EXCEPT !.pc = "set_usdc" ]
                          ELSE Returned(@, TRUE, "none") ]
    /\ UNCHANGED ApcRunFrame

\* check_opportunity, `*self.last_abnormal_time.lock().unwrap() = Some(Utc::now())`
RunSetCooldown(i) ==
    /\ \/ RunAt(i, "set_usdt", FALSE)
       \/ RunAt(i, "set_usdc", FALSE)
    /\ apc_run' = [ apc_run EXCEPT
                      !.ctl.last_abnormal_time = << apc_run.now >>,
                      !.calls[i] =
                          Returned(@, FALSE, IF @.pc = "set_usdt" THEN "abnormal_usdt"
                                                                  ELSE "abnormal_usdc") ]
    /\ UNCHANGED ApcRunFrame

\* reset, `history.clear()`: price_history stays locked
RunResetClear(i) ==
    /\ RunAt(i, "clear", TRUE)
    /\ apc_run' = [ apc_run EXCEPT !.ctl.price_history = << >>,
                                   !.history_held = i,
                                   !.calls[i].pc = "unset" ]
    /\ UNCHANGED ApcRunFrame

\* reset, `*last_time = None`, and both locks released at the return
RunResetTimer(i) ==
    /\ RunAt(i, "unset", FALSE)
    /\ apc_run' = [ apc_run EXCEPT !.ctl.last_abnormal_time = << >>,
                                   !.history_held = 0,
                                   !.calls[i] = Returned(@, TRUE, "none") ]
    /\ UNCHANGED ApcRunFrame

ApcRunNext ==
    \/ RunEarlierCheck
    \/ RunSecond
    \/ RunBegin
    \/ \E i \in 1..2 :
          \/ RunAddBuyPrice(i)
          \/ RunAddSellPrice(i)
          \/ RunIsInCooldown(i)
          \/ RunDetectUsdt(i)
          \/ RunDetectUsdc(i)
          \/ RunSetCooldown(i)
          \/ RunResetClear(i)
          \/ RunResetTimer(i)

ApcRunSpec == ApcRunInit /\ [][ApcRunNext]_vars

(***************************************************************************)
(* TradingFrequencyController under concurrent calls, one step per lock    *)
(* acquisition: check_opportunity, record_result (of a Completed or Failed *)
(* result) and reset, on a controller earlier trades were recorded on.     *)
(* The calls run within one second.                                        *)
(***************************************************************************)
\* Calls made at once.
NumCalls == 3

\* Trades recorded before the concurrent calls.
MaxEarlierTrades == 1

FreqOps == { "check", "record", "reset" }

\* A call in flight: where it stands and, once returned, its answer.
FreqCall(op) ==
    [ op |-> op,
      pc |-> CASE op = "check" -> "interval" [] op = "record" -> "stamp" [] OTHER -> "unstamp",
      allowed |-> TRUE, reason |-> "none" ]

FreqRunFrame == << engineVars, sel, startup, clock, dll, freq, ctl_log,
                   apc, expo, pair_blacklist, tw, emitted, apc_run,
    moreVars >>

\* TradingFrequencyController::new; no call made yet.
FreqRunInit ==
    /\ EngineInit /\ db_manager = FALSE
    /\ freq_run = [ ctl |-> NoFreq, now |-> 0, earlier |-> 0, from |-> NoFreq,
                    last_held |-> 0, calls |-> << >> ]
    /\ sel = NoSel /\ startup = NoStartup /\ clock = NoClock /\ dll = NoDll /\ freq = NoFreq
    /\ ctl_log = << >>
    /\ apc = << >> /\ expo = << >> /\ pair_blacklist = << >> /\ tw = << >>
    /\ emitted = << >> /\ apc_run = << >>
    /\ MoreIdle

\* record_result of a Completed result, called alone
FreqEarlierTrade ==
    /\ freq_run.calls = << >>
    /\ freq_run.earlier < MaxEarlierTrades
    /\ freq_run' = [ freq_run EXCEPT
                       !.ctl = FreqRecord(freq_run.ctl, freq_run.now,
                                          [ status |-> "Completed", profit |-> 0 ]),
                       !.earlier = @ + 1 ]
    /\ UNCHANGED FreqRunFrame

\* A second passes between calls.
FreqRunSecond ==
    /\ freq_run.calls = << >>
    /\ freq_run.now < MaxTime
    /\ freq_run' = [ freq_run EXCEPT !.now = @ + 1 ]
    /\ UNCHANGED FreqRunFrame

\* Tasks call the controller at once.
FreqRunBegin ==
    /\ freq_run.calls = << >>
    /\ \E ops \in [ 1..NumCalls -> FreqOps ] :
          freq_run' = [ freq_run EXCEPT !.from = freq_run.ctl,
                                        !.calls = [ i \in 1..NumCalls |-> FreqCall(ops[i]) ] ]
    /\ UNCHANGED FreqRunFrame

\* The call i is at pc `at`, and last_trade_time can be locked if the step
\* locks it.
FreqRunAt(i, at, locks_last) ==
    /\ freq_run.calls # << >>
    /\ freq_run.calls[i].pc = at
    /\ locks_last => freq_run.last_held = 0

\* check_frequency, `if let Some(last_time) = *self.last_trade_time.lock().unwrap()`
FreqRunInterval(i) ==
    /\ FreqRunAt(i, "interval", TRUE)
    /\ LET last == freq_run.ctl.last_trade_time
       IN  freq_run' = [ freq_run EXCEPT
                           !.calls[i] =
                               IF last # << >> /\ freq_run.now - last[1] < MinIntervalSeconds
                               THEN [ @ EXCEPT !.pc = "done", !.allowed = FALSE,
                                               !.reason = "interval" ]
                               ELSE [ @ EXCEPT !.pc = "count" ] ]
    /\ UNCHANGED FreqRunFrame

\* check_frequency, `let mut recent_trades = self.recent_trades.lock().unwrap()`
\* to the return
FreqRunCount(i) ==
    /\ FreqRunAt(i, "count", FALSE)
    /\ LET pruned == PruneFront(freq_run.ctl.recent_trades, freq_run.now - TimeframeSeconds)
           full == Len(pruned) >= MaxTradesPerTimeframe
       IN  freq_run' = [ freq_run EXCEPT
                           !.ctl.recent_trades = pruned,
                           !.calls[i] = [ @ EXCEPT !.pc = "done", !.allowed = ~ full,
                                          !.reason = IF full THEN "count" ELSE "none" ] ]
    /\ UNCHANGED FreqRunFrame

\* record_trade, `*last_trade_time = Some(now)`: last_trade_time stays locked
FreqRunStamp(i) ==
    /\ FreqRunAt(i, "stamp", TRUE)
    /\ freq_run' = [ freq_run EXCEPT !.ctl.last_trade_time = << freq_run.now >>,
                                     !.last_held = i,
                                     !.calls[i].pc = "push" ]
    /\ UNCHANGED FreqRunFrame

\* record_trade, `recent_trades.push_back(now)`, and both locks released
FreqRunPush(i) ==
    /\ FreqRunAt(i, "push", FALSE)
    /\ freq_run' = [ freq_run EXCEPT !.ctl.recent_trades = Append(@, freq_run.now),
                                     !.last_held = 0,
                                     !.calls[i].pc = "done" ]
    /\ UNCHANGED FreqRunFrame

\* reset, `*last_trade_time = None`: last_trade_time stays locked
FreqRunUnstamp(i) ==
    /\ FreqRunAt(i, "unstamp", TRUE)
    /\ freq_run' = [ freq_run EXCEPT !.ctl.last_trade_time = << >>,
                                     !.last_held = i,
                                     !.calls[i].pc = "clear" ]
    /\ UNCHANGED FreqRunFrame

\* reset, `recent_trades.clear()`, and both locks released
FreqRunClear(i) ==
    /\ FreqRunAt(i, "clear", FALSE)
    /\ freq_run' = [ freq_run EXCEPT !.ctl.recent_trades = << >>,
                                     !.last_held = 0,
                                     !.calls[i].pc = "done" ]
    /\ UNCHANGED FreqRunFrame

FreqRunNext ==
    \/ FreqEarlierTrade
    \/ FreqRunSecond
    \/ FreqRunBegin
    \/ \E i \in 1..NumCalls :
          \/ FreqRunInterval(i)
          \/ FreqRunCount(i)
          \/ FreqRunStamp(i)
          \/ FreqRunPush(i)
          \/ FreqRunUnstamp(i)
          \/ FreqRunClear(i)

FreqRunSpec == FreqRunInit /\ [][FreqRunNext]_vars

(***************************************************************************)
(* TrendFollowingStrategy on its own price history: find_opportunity over  *)
(* the spot prices, the trends and the volatility spike calculated from    *)
(* the history as the strategy keeps it.                                   *)
(***************************************************************************)
\* short_window and long_window (10 and 30 by default).
ShortWindow == 1

LongWindow == 2

\* TrendFollowingStrategySettings::default: trend_threshold = 1.0 (percent)
TrendThreshold == 1

\* Spot prices handed to find_opportunity.
TrendPrices == { DecFrom(95), DecFrom(98) + DecUnit \div 2,
                 DecFrom(101) + DecUnit \div 2, DecFrom(102) + (2 * DecUnit) \div 5 }

\* ((a - b) / b) * 100, the percentage keeping the Decimal's digits
PercentChange(a, b) == RoundDiv((a - b) * 100 * DecUnit, b)

\* TrendFollowingStrategy::record_price
TrendRecordPrice(history, usdt_price, usdc_price) ==
    LET pushed == Append(history, << usdt_price, usdc_price >>)
    IN  IF Len(pushed) > LongWindow THEN Tail(pushed) ELSE pushed

\* calculate_trend, `prices.iter().rev().take(n).sum()`
RECURSIVE SumRecent(_, _, _)
SumRecent(history, n, side) ==
    IF n = 0 \/ Len(history) = 0 THEN 0
    ELSE history[Len(history)][side]
         + SumRecent(SubSeq(history, 1, Len(history) - 1), n - 1, side)

\* TrendFollowingStrategy::calculate_trend (side 1 for is_usdt, 2 otherwise)
CalculateTrend(history, side) ==
    IF Len(history) < ShortWindow \/ Len(history) < LongWindow
    THEN [ trend |-> "Sideways", strength |-> 0 ]
    ELSE LET short_mean == DecDiv(SumRecent(history, ShortWindow, side), DecFrom(ShortWindow))
             long_mean == DecDiv(SumRecent(history, LongWindow, side), DecFrom(LongWindow))
             trend_change == PercentChange(short_mean, long_mean)
         IN  [ trend |-> IF trend_change > DecFrom(TrendThreshold) THEN "Up"
                         ELSE IF trend_change < - DecFrom(TrendThreshold) THEN "Down"
                         ELSE "Sideways",
               strength |-> Abs(trend_change) ]

\* has_recent_volatility_spike, the `recent` latest samples lying in the last
\* five minutes
HasRecentVolatilitySpike(history, recent) ==
    /\ Len(history) >= 2
    /\ recent >= 2
    /\ \E i \in (Len(history) - recent + 2)..Len(history) :
          \E side \in 1..2 :
             /\ history[i - 1][side] # 0
             /\ Abs(PercentChange(history[i][side], history[i - 1][side])) > DecFrom(5)

\* TrendFollowingStrategy::new: no sample yet, find_opportunity not called
TrendInit ==
    /\ EngineInit /\ db_manager = FALSE
    /\ trend = [ price_history |-> << >>, called |-> FALSE, recent |-> 0,
                 opportunity |-> NoOpportunity ]
    /\ TrendApart

\* TrendFollowingStrategy::find_opportunity
TrendFindOpportunity ==
    /\ \E usdt_price \in TrendPrices, usdc_price \in TrendPrices :
          LET history == TrendRecordPrice(trend.price_history, usdt_price, usdc_price)
              usdt == CalculateTrend(history, 1)
              usdc == CalculateTrend(history, 2)
          IN  \E recent \in 1..Len(history) :
                 trend' = [ price_history |-> history, called |-> TRUE, recent |-> recent,
                            opportunity |->
                                TrendFind(usdt_price, usdc_price,
                                          [ usdt_trend |-> usdt.trend,
                                            usdt_strength |-> usdt.strength,
                                            usdc_trend |-> usdc.trend,
                                            usdc_strength |-> usdc.strength ],
                                          HasRecentVolatilitySpike(history, recent)) ]
    /\ UNCHANGED TrendFrame

TrendNext == TrendFindOpportunity

TrendSpec == TrendInit /\ [][TrendNext]_vars

(***************************************************************************)
(* OrderBookDepthStrategy::find_opportunity, one step per order book       *)
(* fetched and walked: the books are the exchange's answers.               *)
(***************************************************************************)
\* Levels of an order book side the exchange returns (depth_levels is 20).
MaxLevels == 2

\* OrderBookDepthStrategySettings::default: min_liquidity = 1.0
MinLiquidity == DecUnit

\* Quantities offered at a level.
LevelQuantities == { DecUnit \div 2, DecUnit }

\* Spot prices handed to find_opportunity.
DepthPrices == { DecFrom(50), DecFrom(52) }

\* The four walks in the order find_opportunity makes them.
DepthWalks == << [ quote |-> "USDT", side |-> "buy" ], [ quote |-> "USDT", side |-> "sell" ],
                 [ quote |-> "USDC", side |-> "buy" ], [ quote |-> "USDC", side |-> "sell" ] >>

\* The side of a book walked: asks rising from the best price by 1 % of it a
\* level, bids falling, with the quantities given.
BookSide(best, side, quantities) ==
    [ i \in 1..Len(quantities) |->
        << IF side = "buy" THEN best + (i - 1) * (best \div 100)
                           ELSE best - (i - 1) * (best \div 100),
           quantities[i] >> ]

BookQuantities == UNION { [ 1..n -> LevelQuantities ] : n \in 0..MaxLevels }

\* analyze_order_book_depth, `for (price, qty) in orders`: the levels from i on
RECURSIVE WalkLevels(_, _, _)
WalkLevels(levels, i, w) ==
    IF i > Len(levels) \/ w.remaining_amount <= 0 THEN w
    ELSE LET qty == levels[i][2]
             execute_qty == IF w.remaining_amount > qty THEN qty ELSE w.remaining_amount
         IN  WalkLevels(levels, i + 1,
                        [ remaining_amount |-> w.remaining_amount - execute_qty,
                          total_cost |-> w.total_cost + DecMul(execute_qty, levels[i][1]),
                          total_executed |-> w.total_executed + execute_qty ])

\* OrderBookDepthStrategy::analyze_order_book_depth on the side of the book
\* fetched: Err, or Ok((liquidity, slippage))
AnalyzeOrderBookDepth(levels, side, amount) ==
    IF Len(levels) = 0 THEN [ kind |-> "err", liquidity |-> 0, slippage |-> 0 ]
    ELSE LET w == WalkLevels(levels, 1, [ remaining_amount |-> amount, total_cost |-> 0,
                                          total_executed |-> 0 ])
             best_price == levels[1][1]
             avg_price == IF w.total_executed > 0
                          THEN DecDiv(w.total_cost, w.total_executed) ELSE best_price
         IN  IF w.remaining_amount > 0
             THEN [ kind |-> "ok", liquidity |-> w.total_executed, slippage |-> 0 ]
             ELSE [ kind |-> "ok", liquidity |-> w.total_executed,
                    slippage |-> IF side = "buy"
                                 THEN DecMul(DecDiv(avg_price - best_price, best_price),
                                             DecFrom(100))
                                 ELSE DecMul(DecDiv(best_price - avg_price, best_price),
                                             DecFrom(100)) ]

\* OrderBookDepthStrategy::new: find_opportunity not called
DepthInit ==
    /\ EngineInit /\ db_manager = FALSE
    /\ depth = [ at |-> "idle", usdt_price |-> 0, usdc_price |-> 0, amount |-> 0,
                 walks |-> << >>, answer |-> "none", opportunity |-> NoOpportunity ]
    /\ DepthApart

\* find_opportunity, to `let approx_base_amount = max_trade_amount / usdt_price.price`
DepthStart ==
    /\ depth.at = "idle"
    /\ \E usdt_price \in DepthPrices, usdc_price \in DepthPrices :
          depth' = [ depth EXCEPT !.at = "walk", !.usdt_price = usdt_price,
                                  !.usdc_price = usdc_price,
                                  !.amount = DecDiv(DecFrom(MaxTradeAmountUsdt), usdt_price) ]
    /\ UNCHANGED DepthFrame

\* find_opportunity, the next `self.analyze_order_book_depth(..).await?`: the
\* exchange answers with a book, whose quantities are kept beside the result
DepthAnalyze ==
    /\ depth.at = "walk"
    /\ Len(depth.walks) < 4
    /\ \E quantities \in BookQuantities :
          LET walk == DepthWalks[Len(depth.walks) + 1]
              best == IF walk.quote = "USDT" THEN depth.usdt_price ELSE depth.usdc_price
              r == AnalyzeOrderBookDepth(BookSide(best, walk.side, quantities),
                                         walk.side, depth.amount)
          IN  depth' = IF r.kind = "err"
                       THEN [ depth EXCEPT !.at = "done", !.answer = "err" ]
                       ELSE [ depth EXCEPT
                                !.walks = Append(@, [ quantities |-> quantities,
                                                      liquidity |-> r.liquidity,
                                                      slippage |-> r.slippage ]) ]
    /\ UNCHANGED DepthFrame

\* find_opportunity, from `if usdt_buy_liquidity < self.min_liquidity` on
DepthDecide ==
    /\ depth.at = "walk"
    /\ Len(depth.walks) = 4
    /\ LET o == DepthFind(depth.usdt_price, depth.usdc_price,
                          [ usdt_buy |-> depth.walks[1].slippage,
                            usdt_sell |-> depth.walks[2].slippage,
                            usdc_buy |-> depth.walks[3].slippage,
                            usdc_sell |-> depth.walks[4].slippage ],
                          \A i \in 1..4 : ~ (depth.walks[i].liquidity < MinLiquidity))
       IN  depth' = [ depth EXCEPT !.at = "done",
                                   !.answer = IF o = NoOpportunity THEN "none" ELSE "some",
                                   !.opportunity = o ]
    /\ UNCHANGED DepthFrame

DepthNext == DepthStart \/ DepthAnalyze \/ DepthDecide

DepthSpec == DepthInit /\ [][DepthNext]_vars

(***************************************************************************)
(* A risk controller of one of four kinds (DailyLossLimit, AbnormalPrice,  *)
(* Frequency, PairBlacklist) through the calls of the RiskController       *)
(* trait, the blacklist's additions included, with the clock it reads.     *)
(***************************************************************************)
\* Calls made on the controller.
MaxResetCalls == 5

ResettableKinds == { "DailyLossLimit", "AbnormalPrice", "Frequency", "PairBlacklist" }

\* Opportunities handed to check_opportunity.
RstOpportunities ==
    { [ base_asset |-> "BTC", buy_quote |-> "USDT",
        buy_price |-> DecFrom(100), sell_price |-> DecFrom(100) ],
      [ base_asset |-> "BTC", buy_quote |-> "USDT",
        buy_price |-> DecFrom(100), sell_price |-> DecFrom(120) ],
      [ base_asset |-> "ETH", buy_quote |-> "USDC",
        buy_price |-> DecFrom(120), sell_price |-> DecFrom(100) ] }

\* Results handed to record_result.
RstResults ==
    { [ status |-> "Completed", profit |-> DecFrom(0 - 50) ],
      [ status |-> "Failed", profit |-> DecFrom(0 - 50) ] }

\* DailyLossLimitController::new, AbnormalPriceController::new,
\* TradingFrequencyController::new, PairBlacklistController::new
NewController(kind, today) ==
    CASE kind = "DailyLossLimit" -> [ current_date |-> today, daily_pnl |-> 0 ]
      [] kind = "AbnormalPrice" -> ApcNew
      [] kind = "Frequency" -> NoFreq
      [] OTHER -> {}

\* RiskController::check_opportunity of the kind: the state left and the answer
CheckOn(kind, c, o, now, today) ==
    CASE kind = "DailyLossLimit" -> DllCheck(c, today)
      [] kind = "AbnormalPrice" ->
            LET r == ApcCheckOpportunity(c, o, now)
            IN  [ state |-> r.state, allowed |-> r.allowed ]
      [] kind = "Frequency" ->
            LET r == FreqCheck(c, now)
            IN  [ state |-> r.state, allowed |-> r.allowed ]
      [] OTHER -> [ state |-> c, allowed |-> BlCheckOpportunity(c, o) ]

\* RiskController::record_result of the kind
RecordOn(kind, c, r, now, today) ==
    CASE kind = "DailyLossLimit" -> DllRecord(c, today, r)
      [] kind = "Frequency" -> FreqRecord(c, now, r)
      [] OTHER -> c

\* reset keeping what the controller has accumulated.
ResetKeeps(kind, c) == c

\* RiskController::reset of the kind
ResetOn(kind, c) ==
    CASE kind = "DailyLossLimit" -> DllReset(c)
      [] kind = "AbnormalPrice" -> ApcReset(c)
      [] kind = "Frequency" -> FreqReset(c)
      [] OTHER -> BlReset(c)

NoRstCall == [ op |-> "none", allowed |-> TRUE, after_reset |-> FALSE,
               opportunity |-> << >> ]

\* The controller as constructed, of any of the kinds, at the day 0.
RstInit ==
    /\ EngineInit /\ db_manager = FALSE
    /\ \E kind \in ResettableKinds :
          rst = [ kind |-> kind, ctl |-> NewController(kind, 0), now |-> 0, date |-> 0,
                  made |-> 0, reset_last |-> FALSE, denied |-> FALSE,
                  last |-> NoRstCall ]
    /\ RstApart

\* check_opportunity
RstCheck ==
    /\ rst.made < MaxResetCalls
    /\ \E o \in RstOpportunities :
          LET r == CheckOn(rst.kind, rst.ctl, o, rst.now, rst.date)
          IN  rst' = [ rst EXCEPT !.ctl = r.state, !.made = @ + 1, !.reset_last = FALSE,
                                  !.denied = @ \/ ~r.allowed,
                                  !.last = [ op |-> "check", allowed |-> r.allowed,
                                             after_reset |-> rst.reset_last,
                                             opportunity |-> o ] ]
    /\ UNCHANGED RstFrame

\* record_result
RstRecord ==
    /\ rst.made < MaxResetCalls
    /\ \E r \in RstResults :
          rst' = [ rst EXCEPT !.ctl = RecordOn(rst.kind, rst.ctl, r, rst.now, rst.date),
                              !.made = @ + 1, !.reset_last = FALSE,
                              !.last = [ NoRstCall EXCEPT !.op = "record" ] ]
    /\ UNCHANGED RstFrame

\* add_to_blacklist, add_base_asset_to_blacklist
RstAdd ==
    /\ rst.made < MaxResetCalls
    /\ rst.kind = "PairBlacklist"
    /\ \E a \in { "BTC", "ETH" } :
          \E added \in { BlAdd(rst.ctl, a, "USDT"), BlAddBase(rst.ctl, a) } :
             rst' = [ rst EXCEPT !.ctl = added, !.made = @ + 1, !.reset_last = FALSE,
                                 !.last = [ NoRstCall EXCEPT !.op = "add" ] ]
    /\ UNCHANGED RstFrame

\* reset
RstReset ==
    /\ rst.made < MaxResetCalls
    /\ rst' = [ rst EXCEPT !.ctl = ResetOn(rst.kind, rst.ctl), !.made = @ + 1,
                           !.reset_last = TRUE,
                           !.last = [ NoRstCall EXCEPT !.op = "reset" ] ]
    /\ UNCHANGED RstFrame

\* A second passes.
RstSecond ==
    /\ rst.now < MaxTime
    /\ rst' = [ rst EXCEPT !.now = @ + 1 ]
    /\ UNCHANGED RstFrame

\* Midnight passes.
RstMidnight ==
    /\ rst.date < MaxDate
    /\ rst' = [ rst EXCEPT !.date = @ + 1 ]
    /\ UNCHANGED RstFrame

RstNext == RstCheck \/ RstRecord \/ RstAdd \/ RstReset \/ RstSecond \/ RstMidnight

RstSpec == RstInit /\ [][RstNext]_vars

(***************************************************************************)
(* The rolling price stores: the histories of the TWAP, SlippageControl    *)
(* and TrendFollowing strategies, filled by find_opportunity, and the ring *)
(* of the AbnormalPrice controller, filled by check_opportunity and by     *)
(* add_price.                                                              *)
(***************************************************************************)
\* SlippageControlStrategy::new: volatility_window_size
VolatilityWindowSize == 2

\* Calls made on the stores.
MaxStoreCalls == 6

\* Spot prices find_opportunity records, as (usdt, usdc).
StorePricePairs == { << DecFrom(100), DecFrom(100) >>, << DecFrom(120), DecFrom(100) >> }

\* Opportunities handed to check_opportunity.
StoreOpportunities ==
    { [ buy_quote |-> "USDT", buy_price |-> DecFrom(100), sell_price |-> DecFrom(120) ],
      [ buy_quote |-> "USDC", buy_price |-> DecFrom(120), sell_price |-> DecFrom(100) ] }

\* SlippageControlStrategy::record_price
SlippageRecordPrice(history, usdt_price, usdc_price) ==
    LET pushed == Append(history, << usdt_price, usdc_price >>)
    IN  IF Len(pushed) > VolatilityWindowSize THEN Tail(pushed) ELSE pushed

\* The strategies and the controller as constructed.
StoreInit ==
    /\ EngineInit /\ db_manager = FALSE
    /\ stores = [ twap |-> << >>, slippage |-> << >>, trend |-> << >>, ring |-> << >>,
                  made |-> 0, evicted |-> {} ]
    /\ StoreApart

\* The stores after a call that pushed onto one of them, with the stores that
\* have lost an entry.
Stored(name, after, pushes) ==
    [ stores EXCEPT ![name] = after, !.made = @ + 1,
                    !.evicted = IF Len(after) < Len(stores[name]) + pushes
                                THEN @ \cup { name } ELSE @ ]

\* TimeWeightedAverageStrategy::find_opportunity, `self.record_price(..)`
StoreTwap ==
    /\ stores.made < MaxStoreCalls
    /\ \E p \in StorePricePairs :
          stores' = Stored("twap", TwapRecordPrice(stores.twap, p[1], p[2]), 1)
    /\ UNCHANGED StoreFrame

\* SlippageControlStrategy::find_opportunity, `self.record_price(..)`
StoreSlippage ==
    /\ stores.made < MaxStoreCalls
    /\ \E p \in StorePricePairs :
          stores' = Stored("slippage", SlippageRecordPrice(stores.slippage, p[1], p[2]), 1)
    /\ UNCHANGED StoreFrame

\* TrendFollowingStrategy::find_opportunity, `self.record_price(..)`
StoreTrend ==
    /\ stores.made < MaxStoreCalls
    /\ \E p \in StorePricePairs :
          stores' = Stored("trend", TrendRecordPrice(stores.trend, p[1], p[2]), 1)
    /\ UNCHANGED StoreFrame

\* AbnormalPriceController::check_opportunity, the two add_price calls
StoreCheck ==
    /\ stores.made < MaxStoreCalls
    /\ \E o \in StoreOpportunities :
          stores' = Stored("ring", StorePrices(stores.ring, o), 2)
    /\ UNCHANGED StoreFrame

\* AbnormalPriceController::add_price
StoreAddPrice ==
    /\ stores.made < MaxStoreCalls
    /\ \E q \in { "USDT", "USDC" }, price \in ApcPrices :
          stores' = Stored("ring", AddPrice(stores.ring, SymbolOf(q), price), 1)
    /\ UNCHANGED StoreFrame

StoreNext == StoreTwap \/ StoreSlippage \/ StoreTrend \/ StoreCheck \/ StoreAddPrice

StoreSpec == StoreInit /\ [][StoreNext]_vars

(***************************************************************************)
(* The monitoring loop of the engine with the trading-frequency controller *)
(* enabled: each round validates the opportunity found, executes it when   *)
(* the controller allows, and records the result, while time passes.       *)
(***************************************************************************)
\* Seconds the loop is followed for.
MaxLoopTime == 5

\* Statuses of the results execute_arbitrage leads to: what it returns, and
\* the Failed result built when it returns an error.
ExecutedStatuses == { "Completed", "Failed" }

\* ArbitrageEngine::new with the controller as constructed
FreqEngInit ==
    /\ EngineInit /\ db_manager = FALSE
    /\ freq_eng = [ at |-> "find", now |-> 0, ctl |-> NoFreq, recorded |-> << >>,
                    last |-> "none" ]
    /\ FreqEngApart

\* monitor_opportunities, `self.risk_manager.validate_opportunity(&opportunity)`
FreqEngValidate ==
    /\ freq_eng.at = "find"
    /\ LET c == FreqCheck(freq_eng.ctl, freq_eng.now)
       IN  freq_eng' = [ freq_eng EXCEPT !.ctl = c.state,
                                         !.at = IF c.allowed THEN "execute" ELSE "sleep",
                                         !.last = "check" ]
    /\ UNCHANGED FreqEngFrame

\* monitor_opportunities, `self.execute_arbitrage(&opportunity)` and
\* `self.risk_manager.record_result(..)` on either arm
FreqEngRecord ==
    /\ freq_eng.at = "execute"
    /\ \E status \in ExecutedStatuses :
          freq_eng' = [ freq_eng EXCEPT
                           !.ctl = FreqRecord(@, freq_eng.now, [ status |-> status ]),
                           !.recorded = Append(@, freq_eng.now),
                           !.at = "sleep", !.last = "record" ]
    /\ UNCHANGED FreqEngFrame

\* monitor_opportunities, `sleep(Duration::from_millis(check_interval_ms))`,
\* shorter than a second or longer
FreqEngSleep ==
    /\ freq_eng.at = "sleep"
    /\ \E passed \in { 0, 1 } :
          /\ freq_eng.now + passed <= MaxLoopTime
          /\ freq_eng' = [ freq_eng EXCEPT !.at = "find", !.now = @ + passed,
                                           !.last = "sleep" ]
    /\ UNCHANGED FreqEngFrame

\* A second passes while the orders are placed and polled.
FreqEngSecond ==
    /\ freq_eng.at = "execute"
    /\ freq_eng.now < MaxLoopTime
    /\ freq_eng' = [ freq_eng EXCEPT !.now = @ + 1, !.last = "second" ]
    /\ UNCHANGED FreqEngFrame

FreqEngNext == FreqEngValidate \/ FreqEngRecord \/ FreqEngSleep \/ FreqEngSecond

FreqEngSpec == FreqEngInit /\ [][FreqEngNext]_vars

(***************************************************************************)
(* The AbnormalPriceController under prices that settle: after checks of   *)
(* any opportunities have met an anomaly, every further opportunity is the *)
(* same, and checks keep being made while time passes.  The controller     *)
(* reads the clock only as the time elapsed since last_abnormal_time, so   *)
(* time is kept relative: the clock reads CooldownPeriod throughout and a  *)
(* passing second moves the timer one second back, no further than 0,      *)
(* where the cooldown has elapsed.                                         *)
(***************************************************************************)
\* Opportunities handed to check_opportunity.
CalmOpportunities ==
    { [ buy_quote |-> "USDT", buy_price |-> DecFrom(100), sell_price |-> DecFrom(100) ],
      [ buy_quote |-> "USDT", buy_price |-> DecFrom(100), sell_price |-> DecFrom(120) ],
      [ buy_quote |-> "USDC", buy_price |-> DecFrom(100), sell_price |-> DecFrom(120) ] }

\* The reading of the clock.
CalmNow == CooldownPeriod

NoCalmCall == [ op |-> "none", reason |-> "none", allowed |-> TRUE,
                timer_before |-> << >>, len_before |-> 0 ]

\* What a check_opportunity call leaves: the controller, the call, and the
\* number of checks made since the prices settled.
CalmChecked(o, settled) ==
    LET c == ApcCheckOpportunity(apc_calm.ctl, o, CalmNow)
    IN  [ apc_calm EXCEPT !.ctl = c.state,
                          !.settled_checks = IF settled /\ @ < WindowSize THEN @ + 1 ELSE @,
                          !.last = [ op |-> IF settled THEN "settled_check" ELSE "check",
                                     reason |-> c.reason, allowed |-> c.allowed,
                                     timer_before |-> apc_calm.ctl.last_abnormal_time,
                                     len_before |-> Len(apc_calm.ctl.price_history) ] ]

\* AbnormalPriceController::new
CalmInit ==
    /\ EngineInit /\ db_manager = FALSE
    /\ apc_calm = [ ctl |-> ApcNew, settled |-> << >>, settled_checks |-> 0,
                    last |-> NoCalmCall ]
    /\ CalmApart

\* check_opportunity while the prices move
CalmCheckAny ==
    /\ apc_calm.settled = << >>
    /\ \E o \in CalmOpportunities : apc_calm' = CalmChecked(o, FALSE)
    /\ UNCHANGED CalmFrame

\* After an anomaly the prices settle: every further opportunity is this one.
CalmSettle ==
    /\ apc_calm.settled = << >>
    /\ apc_calm.last.reason \in { "abnormal_usdt", "abnormal_usdc" }
    /\ \E o \in CalmOpportunities :
          apc_calm' = [ apc_calm EXCEPT !.settled = << o >>, !.last = NoCalmCall ]
    /\ UNCHANGED CalmFrame

\* check_opportunity of the opportunity the prices have settled at
CalmCheck ==
    /\ apc_calm.settled # << >>
    /\ apc_calm' = CalmChecked(apc_calm.settled[1], TRUE)
    /\ UNCHANGED CalmFrame

\* A second passes.
CalmSecond ==
    /\ apc_calm.ctl.last_abnormal_time # << >>
    /\ apc_calm.ctl.last_abnormal_time[1] > 0
    /\ apc_calm' = [ apc_calm EXCEPT !.ctl.last_abnormal_time = << @[1] - 1 >>,
                                     !.last = NoCalmCall ]
    /\ UNCHANGED CalmFrame

CalmNext == CalmCheckAny \/ CalmSettle \/ CalmCheck \/ CalmSecond

CalmSpec == CalmInit /\ [][CalmNext]_vars

\* Checks keep being made and time keeps passing.
CalmLiveSpec == CalmSpec /\ WF_vars(CalmCheck) /\ WF_vars(CalmSecond)

(***************************************************************************)
(* The mutexes of a DailyLossLimit, Frequency or AbnormalPrice controller  *)
(* under concurrent check_opportunity, record_result and reset calls.      *)
(* Each call is followed lock by lock: a call takes one of the paths its   *)
(* code has, a path being the acquisitions and releases it makes in order, *)
(* and an acquisition waits until the mutex is free.                       *)
(***************************************************************************)
\* Threads calling the controller, and calls each makes.
NumLockThreads == 2

MaxLockCalls == 1

LockedKinds == { "DailyLossLimit", "Frequency", "AbnormalPrice" }

Acq(m) == << "acq", m >>

Rel(m) == << "rel", m >>

\* A guard taken and dropped with nothing else locked under it.
Alone(m) == << Acq(m), Rel(m) >>

\* Two guards, the second taken under the first and dropped before it.
Nested(outer, inner) == << Acq(outer), Acq(inner), Rel(inner), Rel(outer) >>

\* DailyLossLimitController::check_new_day: the date unchanged, or a new day
CheckNewDayPaths == { Alone("current_date"), Nested("current_date", "daily_pnl") }

\* reset taking its two mutexes in the other order.
ResetPathsReversed(kind) ==
    CASE kind = "DailyLossLimit" -> { Nested("daily_pnl", "current_date") }
      [] kind = "Frequency" -> { Nested("recent_trades", "last_trade_time") }
      [] OTHER -> { Nested("last_abnormal_time", "price_history") }

\* RiskController::reset of each controller
ResetPaths(kind) ==
    CASE kind = "DailyLossLimit" -> { Alone("daily_pnl") }
      [] kind = "Frequency" -> { Nested("last_trade_time", "recent_trades") }
      [] OTHER -> { Nested("price_history", "last_abnormal_time") }

\* RiskController::check_opportunity of each controller
CheckPaths(kind) ==
    CASE kind = "DailyLossLimit" -> { p \o Alone("daily_pnl") : p \in CheckNewDayPaths }
      [] kind = "Frequency" ->
            \* check_frequency: denied for the interval, or on to the window count
            { Alone("last_trade_time"),
              Alone("last_trade_time") \o Alone("recent_trades") }
      [] OTHER ->
            \* the two add_price calls and is_in_cooldown, then each
            \* detect_abnormal_price and, after a detection, the timer
            LET stored == Alone("price_history") \o Alone("price_history")
                              \o Alone("last_abnormal_time")
                detect == Alone("price_history")
                set == Alone("last_abnormal_time")
            IN  { stored, stored \o detect \o set, stored \o detect \o detect \o set,
                  stored \o detect \o detect }

\* RiskController::record_result of each controller
RecordPaths(kind) ==
    CASE kind = "DailyLossLimit" ->
            CheckNewDayPaths \cup { p \o Alone("daily_pnl") : p \in CheckNewDayPaths }
      [] kind = "Frequency" -> { << >>, Nested("last_trade_time", "recent_trades") }
      [] OTHER -> { << >> }

LockOps == { "check", "record", "reset" }

PathsOf(kind, op) ==
    CASE op = "check" -> CheckPaths(kind)
      [] op = "record" -> RecordPaths(kind)
      [] OTHER -> ResetPaths(kind)

Mutexes(kind) ==
    CASE kind = "DailyLossLimit" -> { "current_date", "daily_pnl" }
      [] kind = "Frequency" -> { "last_trade_time", "recent_trades" }
      [] OTHER -> { "price_history", "last_abnormal_time" }

LockThreads == 1..NumLockThreads

\* The controller as constructed, of one of the kinds: every mutex free.
LockInit ==
    /\ EngineInit /\ db_manager = FALSE
    /\ \E kind \in LockedKinds :
          lock_run = [ kind |-> kind,
                       owner |-> [ m \in Mutexes(kind) |-> 0 ],
                       rest |-> [ t \in LockThreads |-> << >> ],
                       made |-> [ t \in LockThreads |-> 0 ] ]
    /\ LockApart

\* A thread calls the controller.
LockBegin(t) ==
    /\ lock_run.rest[t] = << >>
    /\ lock_run.made[t] < MaxLockCalls
    /\ \E op \in LockOps :
          \E path \in PathsOf(lock_run.kind, op) :
             lock_run' = [ lock_run EXCEPT !.rest[t] = path, !.made[t] = @ + 1 ]
    /\ UNCHANGED LockFrame

\* `.lock().unwrap()`: the thread gets the mutex once it is free.
LockAcquire(t) ==
    /\ lock_run.rest[t] # << >>
    /\ Head(lock_run.rest[t])[1] = "acq"
    /\ lock_run.owner[Head(lock_run.rest[t])[2]] = 0
    /\ lock_run' = [ lock_run EXCEPT !.owner[Head(lock_run.rest[t])[2]] = t,
                                     !.rest[t] = Tail(@) ]
    /\ UNCHANGED LockFrame

\* The guard is dropped.
LockRelease(t) ==
    /\ lock_run.rest[t] # << >>
    /\ Head(lock_run.rest[t])[1] = "rel"
    /\ lock_run' = [ lock_run EXCEPT !.owner[Head(lock_run.rest[t])[2]] = 0,
                                     !.rest[t] = Tail(@) ]
    /\ UNCHANGED LockFrame

LockNext == \E t \in LockThreads : LockBegin(t) \/ LockAcquire(t) \/ LockRelease(t)

LockSpec == LockInit /\ [][LockNext]_vars

\* Every thread that can take a step is scheduled.
LockLiveSpec == LockSpec /\ \A t \in LockThreads : WF_vars(LockBegin(t) \/ LockAcquire(t) \/ LockRelease(t))

(***************************************************************************)
(* Vocabulary of the properties.                                           *)
(***************************************************************************)
\* execute_arbitrage was called in this tick.
Executed == calls.buyPlaced > 0

BuyOrders == { id \in DOMAIN orders : orders[id].side = "Buy" }

SellOrders == { id \in DOMAIN orders : orders[id].side = "Sell" }

Range(seq) == { seq[i] : i \in 1..Len(seq) }

\* The tick's execution has ended in failure (reported or about to be).
ExecutionFailed ==
    \/ pc = "exec_err"
    \/ pc = "sleep" /\ Executed /\ result.status = "Failed"

\* Position of controller c in the registration order.
Pos(c) == CHOOSE i \in 1..Len(Controllers) : Controllers[i] = c

Denying == { i \in DOMAIN answers : answers[i] # "allow" }

(***************************************************************************)
(* Two-leg execution.                                                      *)
(***************************************************************************)
\* C1: an execution that ends Completed has taken the statuses Identified,
\* BuyOrderPlaced, BuyOrderFilled, SellOrderPlaced, SellOrderFilled, Completed
\* in exactly that order, and no status follows Completed or Failed.
C1_StatusSequence ==
    /\ result.status = "Completed" =>
          statusTrace = << "Identified", "BuyOrderPlaced", "BuyOrderFilled",
                           "SellOrderPlaced", "SellOrderFilled", "Completed" >>
    /\ \A i \in 1..(Len(statusTrace) - 1) : statusTrace[i] \notin {"Completed", "Failed"}

\* C2: the sell order is placed only once the buy order was seen Filled, it is
\* a market order for the same base quantity max_trade_amount / buy_price as
\* the market buy, and an execution places at most one buy and one sell.
C2_SellAfterBuyFilled ==
    /\ calls.buyPlaced <= 1 /\ calls.sellPlaced <= 1
    /\ Cardinality(BuyOrders) <= 1 /\ Cardinality(SellOrders) <= 1
    /\ calls.sellPlaced > 0 => BuyOrders # {} /\ buy_order_status.status = "Filled"
    /\ \A b \in BuyOrders :
          /\ orders[b].market
          /\ orders[b].symbol = SymbolOf(opportunity.buy_quote)
          /\ orders[b].qty = DecDiv(opportunity.max_trade_amount, opportunity.buy_price)
    /\ \A s \in SellOrders :
          /\ orders[s].market
          /\ orders[s].symbol = SymbolOf(opportunity.sell_quote)
          /\ \E b \in BuyOrders : b < s /\ orders[s].qty = orders[b].qty

C2_Witness == SellOrders # {} /\ buy_order_status.status = "Filled" /\ calls.buyPolls > 0

\* C3: each leg is polled at most 10 times and never after a Filled status;
\* a leg whose placement response and 10 answered polls all lack Filled gets
\* exactly one cancel_order for its order, the execution ends Failed, and
\* after a buy leg that timed out no sell order is placed.
C3_PollLimit ==
    /\ calls.buyPolls <= MaxPolls /\ calls.sellPolls <= MaxPolls
    /\ calls.pollsAfterFilled = 0
    /\ calls.buyCancels <= 1 /\ calls.sellCancels <= 1
    /\ ( /\ BuyOrders # {} /\ pc # "buy_wait"
         /\ calls.buyPolls = MaxPolls /\ calls.pollErrors = 0
         /\ buy_order_status.status # "Filled" )
       => /\ calls.buyCancels = 1
          /\ \A b \in BuyOrders : calls.cancelled = << b >>
          /\ calls.sellPlaced = 0
          /\ ExecutionFailed
    /\ ( /\ SellOrders # {} /\ pc # "sell_wait"
         /\ calls.sellPolls = MaxPolls /\ calls.pollErrors = 0
         /\ sell_order_status.status # "Filled" )
       => /\ calls.sellCancels = 1
          /\ \A s \in SellOrders : calls.cancelled = << s >>
          /\ ExecutionFailed

C3_Witness ==
    /\ pc = "exec_err"
    /\ calls.buyPolls = MaxPolls /\ calls.pollErrors = 0
    /\ buy_order_status.status = "PartiallyFilled"
    /\ calls.buyCancels = 1

\* C4: when an execution has failed, every order it placed whose leg was not
\* seen Filled has had a cancel_order issued for it.
C4_CancelBeforeFailed ==
    ExecutionFailed =>
       /\ buy_order_status.status # "Filled" => \A b \in BuyOrders : b \in Range(calls.cancelled)
       /\ sell_order_status.status # "Filled" => \A s \in SellOrders : s \in Range(calls.cancelled)

\* C5: after an execution that did not complete, the tick has passed exactly
\* one result to record_result, with status Failed and zero trade_amount,
\* profit and profit_percentage, and the same result to the sink if there is one.
C5_FailedRecorded ==
    /\ pc = "exec_err" => recorded = << >> /\ sunk = << >>
    /\ ( pc = "sleep" /\ Executed /\ statusTrace[Len(statusTrace)] # "Completed" )
       => /\ Len(recorded) = 1
          /\ recorded[1].status = "Failed"
          /\ recorded[1].trade_amount = 0
          /\ recorded[1].profit = 0
          /\ recorded[1].profit_percentage = 0
          /\ sunk = IF db_manager THEN recorded ELSE << >>

C5_Witness ==
    /\ pc = "sleep" /\ db_manager
    /\ calls.sellCancels = 1
    /\ Len(recorded) = 1 /\ recorded[1].status = "Failed" /\ sunk = recorded

\* C6: every execution is followed by exactly one record_result call, made
\* after the execution's terminal state and before the next tick starts; a
\* tick that executed nothing makes no record_result call.
C6_OneRecordPerExecution ==
    /\ Len(recorded) <= 1
    /\ totals.records <= totals.executions /\ totals.executions <= totals.records + 1
    /\ pc \in {"tick", "risk", "execute"} => recorded = << >> /\ totals.records = totals.executions
    /\ pc \in {"buy_wait", "sell_wait", "exec_ok", "exec_err"} =>
          recorded = << >> /\ totals.executions = totals.records + 1
    /\ pc = "sleep" =>
          /\ totals.records = totals.executions
          /\ Len(recorded) = IF Executed THEN 1 ELSE 0
    /\ recorded # << >> =>
          /\ recorded[1].status \in {"Completed", "Failed"}
          /\ recorded[1].status = statusTrace[Len(statusTrace)]

C6_Witness ==
    /\ pc = "sleep" /\ Len(recorded) = 1
    /\ totals.executions = 2 /\ totals.records = 2

\* C7 as stated: the profit of a Completed result is the Decimal product of
\* trade_amount and the difference of the two fill prices.
C7_ProfitExact ==
    \A i \in 1..Len(recorded) :
       recorded[i].status = "Completed" =>
          \A b \in BuyOrders, s \in SellOrders :
             recorded[i].profit =
                 DecMul(recorded[i].trade_amount, orders[s].price - orders[b].price)

\* C7 (amended): the profit of a Completed result is trade_amount * sell fill
\* price minus trade_amount * buy fill price, each product rounded to Decimal
\* precision; the fill prices are those of the two Filled orders as last
\* reported, and trade_amount is max_trade_amount / buy_price.
C7_ProfitOfRoundedTotals ==
    \A i \in 1..Len(recorded) :
       recorded[i].status = "Completed" =>
          /\ BuyOrders # {} /\ SellOrders # {}
          /\ recorded[i].trade_amount =
                 DecDiv(opportunity.max_trade_amount, opportunity.buy_price)
          /\ \A b \in BuyOrders, s \in SellOrders :
                /\ orders[b].status = "Filled" /\ orders[s].status = "Filled"
                /\ buy_order_status.price = orders[b].price
                /\ sell_order_status.price = orders[s].price
                /\ recorded[i].profit =
                       DecMul(recorded[i].trade_amount, orders[s].price)
                       - DecMul(recorded[i].trade_amount, orders[b].price)

C7_Witness ==
    /\ Len(recorded) = 1 /\ recorded[1].status = "Completed"
    /\ \E b \in BuyOrders, s \in SellOrders :
          /\ orders[s].price # orders[b].price
          /\ recorded[1].profit #
                 DecMul(recorded[1].trade_amount, orders[s].price - orders[b].price)

(***************************************************************************)
(* Risk gate.                                                              *)
(***************************************************************************)
\* C8: in a tick whose opportunity validate_opportunity denied, no order is
\* placed or cancelled and neither record_result nor the sink is called; an
\* order exists only in a tick in which every controller allowed.
C8_DeniedNothingExecuted ==
    /\ ( answers # << >> /\ ~ risk.is_valid ) =>
          /\ pc = "sleep"
          /\ calls = NoCalls /\ orders = << >>
          /\ recorded = << >> /\ sunk = << >>
    /\ ( Executed \/ orders # << >> ) =>
          /\ DOMAIN answers = 1..Len(Controllers)
          /\ \A i \in DOMAIN answers : answers[i] = "allow"

C8_Witness == pc = "sleep" /\ answers # << >> /\ ~ risk.is_valid /\ risk.reasons # << >>

\* C9: validate_opportunity checks every registered controller once, in
\* registration order, also after a denial; it allows iff every controller
\* allowed, and its reasons are those of the denying controllers in
\* registration order.
C9_AllControllersChecked ==
    answers # << >> =>
       /\ risk.checked = Controllers
       /\ risk.is_valid = (Denying = {})
       /\ Len(risk.reasons) = Cardinality(Denying)
       /\ \A j \in 1..Len(risk.reasons) : Pos(risk.reasons[j].controller) \in Denying
       /\ \A j, k \in 1..Len(risk.reasons) :
             j < k => Pos(risk.reasons[j].controller) < Pos(risk.reasons[k].controller)

C9_Witness ==
    /\ answers # << >> /\ answers[1] = "deny" /\ answers[3] = "deny"
    /\ risk.checked = Controllers /\ Len(risk.reasons) >= 2

\* C10: a controller whose check returned Err makes validate_opportunity
\* answer not allowed with a reason naming that controller; the controllers
\* after it are still checked and the tick executes nothing.
C10_ControllerErrorDenies ==
    \A i \in DOMAIN answers :
       answers[i] = "err" =>
          /\ ~ risk.is_valid
          /\ \E j \in 1..Len(risk.reasons) :
                risk.reasons[j] = [ controller |-> Controllers[i], kind |-> "err" ]
          /\ Len(risk.checked) = Len(Controllers)
          /\ \A k \in (i + 1)..Len(Controllers) : Controllers[k] \in Range(risk.checked)
          /\ pc = "sleep" /\ ~ Executed /\ orders = << >> /\ recorded = << >>

C10_Witness ==
    /\ pc = "sleep"
    /\ answers # << >> /\ answers[1] = "allow" /\ answers[2] = "err" /\ answers[3] = "allow"
    /\ Len(risk.checked) = 3

(***************************************************************************)
(* Selection of the opportunity.                                           *)
(***************************************************************************)
\* Iterations of the strategy loop whose opportunity was validated.
Accepted ==
    { k \in 1..Len(sel.log) :
        sel.log[k].answer.kind = "some" /\ sel.log[k].answer.valid = "true" }

\* The accepted iteration with the highest profit_percentage, the earliest
\* strategy winning ties.
BestAccepted ==
    CHOOSE k \in Accepted :
       \A j \in Accepted :
          \/ sel.log[j].answer.opp.profit_percentage
                < sel.log[k].answer.opp.profit_percentage
          \/ /\ sel.log[j].answer.opp.profit_percentage
                  = sel.log[k].answer.opp.profit_percentage
             /\ k <= j

\* Iterations in which the strategy answered Err to find or to validate.
Errored ==
    { k \in 1..Len(sel.log) :
        sel.log[k].answer.kind = "err" \/ sel.log[k].answer.valid = "err" }

\* C11: whenever at least one strategy's opportunity was validated, the
\* opportunity returned is the accepted one with the highest
\* profit_percentage, the earliest strategy winning ties.
C11_BestAcceptedReturned ==
    ( sel.pc = "done" /\ Accepted # {} ) =>
       sel.returned = sel.log[BestAccepted].answer.opp

\* C14: a strategy that answered Err leaves the best opportunity as it was,
\* the loop still consults every enabled strategy, and the call returns an
\* opportunity (it fails only when a price fetch failed).
C14_StrategyErrorIsolated ==
    /\ \A k \in Errored :
          sel.log[k].best_after = IF k = 1 THEN NoOpportunity ELSE sel.log[k - 1].best_after
    /\ sel.pc = "done" =>
          /\ Len(sel.log) = NumStrategies
          /\ sel.returned # NoOpportunity
    /\ sel.pc = "err" => sel.log = << >>
    /\ ( sel.pc = "loop" /\ sel.i <= NumStrategies ) => ENABLED SelStrategy

C14_Witness ==
    /\ sel.pc = "done"
    /\ 1 \in Errored /\ 2 \in Accepted
    /\ sel.returned = sel.log[2].answer.opp

C13_PriceErrorSkipsTick ==
    prices.fetched \in {"usdt_err", "usdc_err"} =>
       /\ pc = "sleep"
       /\ ENABLED Sleep
       /\ prices.fetched = "usdt_err" => prices.usdc = 0
       /\ invoked = << >>
       /\ opportunity = NoOpportunity
       /\ answers = << >> /\ risk.checked = << >>
       /\ calls = NoCalls /\ orders = << >>
       /\ recorded = << >> /\ sunk = << >>

C13_Witness ==
    /\ prices.fetched = "usdc_err" /\ pc = "sleep"
    /\ ticks = 2 /\ totals.executions = 1

\* C15: the monitor loop has no exit: whatever a tick met (a price-fetch
\* error, a risk denial, a Failed execution, a sink error), it comes to the
\* sleep and the next tick starts, so that, every await returning, the loop
\* runs tick after tick: each of the MaxTicks ticks explored is run to its
\* end and the loop stands at the start of the following one.
C15_LoopKeepsRunning == <>[](pc = "tick" /\ ticks = MaxTicks)

C15_Witness ==
    /\ pc = "tick" /\ ticks = MaxTicks
    /\ totals.executions >= 1 /\ totals.records = totals.executions

(***************************************************************************)
(* Startup.                                                                *)
(***************************************************************************)
\* The configured trading time window names a time of day.
ValidTimeWindow(cfg) ==
    /\ cfg.start_hour \in 0..23 /\ cfg.start_minute \in 0..59
    /\ cfg.end_hour \in 0..23 /\ cfg.end_minute \in 0..59

\* Every configured blacklist entry ends in USDT or USDC.
ValidBlacklist(cfg) ==
    \A i \in 1..Len(cfg.blacklisted_pairs) :
       \/ EndsWith(cfg.blacklisted_pairs[i], USDT)
       \/ EndsWith(cfg.blacklisted_pairs[i], USDC)

\* The configuration of an enabled controller is in error.
ConfigError(cfg) ==
    \/ /\ \E i \in 1..Len(cfg.enabled_controllers) :
             cfg.enabled_controllers[i] = "TradingTimeWindow"
       /\ ~ ValidTimeWindow(cfg)
    \/ /\ \E i \in 1..Len(cfg.enabled_controllers) :
             cfg.enabled_controllers[i] = "PairBlacklist"
       /\ ~ ValidBlacklist(cfg)

\* C16: with an invalid trading time window or a blacklist entry that ends
\* neither in USDT nor in USDC, ArbitrageEngine::new fails and no tick is run.
C16_ConfigErrorFatal ==
    ( startup.phase # "idle" /\ ConfigError(startup.cfg) ) =>
       /\ startup.phase \in {"config", "failed"}
       /\ startup.ticks = 0

(***************************************************************************)
(* DailyLossLimit and TradingFrequency.                                    *)
(***************************************************************************)
\* Signed sum of the profits of the Completed results recorded on the given
\* date since the last reset.
RECURSIVE LedgerSum(_, _)
LedgerSum(ledger, date) ==
    IF ledger = << >> THEN 0
    ELSE (IF Head(ledger).date = date THEN Head(ledger).profit ELSE 0)
         + LedgerSum(Tail(ledger), date)

C18_AllowsAtLimit ==
    ( /\ ctl_log.last.op = "dll_check"
      /\ LedgerSum(ctl_log.ledger, ctl_log.last.date) = 0 - MaxDailyLoss * DecUnit )
    => ctl_log.last.allowed

\* C19 as stated: a Failed result is accounted by the frequency controller
\* and leaves daily_pnl unchanged; a Completed result adds its profit; a
\* result in a non-terminal status changes neither controller.
C19_FailedLeavesPnlUnchanged ==
    ctl_log.last.op = "record" =>
       /\ ctl_log.last.status = "Failed" =>
             /\ freq.last_trade_time = << ctl_log.last.now >>
             /\ freq.recent_trades = Append(ctl_log.last.freq_before.recent_trades,
                                            ctl_log.last.now)
             /\ dll.daily_pnl = ctl_log.last.dll_before.daily_pnl
       /\ ctl_log.last.status \notin {"Completed", "Failed"} =>
             /\ freq = ctl_log.last.freq_before
             /\ dll = ctl_log.last.dll_before

\* The daily_pnl a call finds once the date was compared: that of the
\* controller when the stored date is the date of the call, else 0.
PnlFound(last) ==
    IF last.dll_before.current_date = last.date THEN last.dll_before.daily_pnl ELSE 0

\* C19 (amended): record_result of a Failed result sets last_trade_time and
\* appends the time to recent_trades, so that every check less than
\* min_interval_seconds later is denied, and adds nothing to daily_pnl; a
\* Completed result adds its profit; a result in a non-terminal status
\* leaves the frequency controller unchanged and adds nothing to daily_pnl.
\* In each case the DailyLossLimit controller first stores the date of the
\* call and, when it differs from the stored one, sets daily_pnl to 0.
C19_FailedCountsForFrequencyOnly ==
    ctl_log.last.op = "record" =>
       /\ dll.current_date = ctl_log.last.date
       /\ dll.daily_pnl = PnlFound(ctl_log.last)
                          + (IF ctl_log.last.status = "Completed"
                             THEN ctl_log.last.profit ELSE 0)
       /\ ctl_log.last.status \in {"Completed", "Failed"} =>
             /\ freq.last_trade_time = << ctl_log.last.now >>
             /\ freq.recent_trades = Append(ctl_log.last.freq_before.recent_trades,
                                            ctl_log.last.now)
             /\ \A t \in ctl_log.last.now..(ctl_log.last.now + MinIntervalSeconds - 1) :
                   ~ FreqCheck(freq, t).allowed
       /\ ctl_log.last.status \notin {"Completed", "Failed"} =>
             freq = ctl_log.last.freq_before

C19_Witness ==
    /\ ctl_log.last.op = "record" /\ ctl_log.last.status = "Failed"
    /\ ctl_log.last.profit < 0
    /\ ctl_log.last.dll_before.daily_pnl < 0
    /\ dll.daily_pnl = ctl_log.last.dll_before.daily_pnl
    /\ ctl_log.last.freq_before.last_trade_time = << >>
    /\ freq.last_trade_time # << >>

\* C20: a check_opportunity of the DailyLossLimit controller made on a date
\* other than the one the controller has stored finds daily_pnl reset to 0
\* (and so allows, whatever was lost before) and stores the new date.
C20_NewDayResets ==
    ( /\ ctl_log.last.op = "dll_check"
      /\ ctl_log.last.dll_before.current_date # ctl_log.last.date )
    => /\ dll.daily_pnl = 0
       /\ dll.current_date = ctl_log.last.date
       /\ ctl_log.last.allowed

C20_Witness ==
    /\ ctl_log.last.op = "dll_check"
    /\ ctl_log.last.dll_before.current_date # ctl_log.last.date
    /\ ctl_log.last.dll_before.daily_pnl <= 0 - MaxDailyLoss * DecUnit
    /\ ctl_log.last.allowed /\ dll.daily_pnl = 0

(***************************************************************************)
(* AbnormalPriceController.                                                *)
(***************************************************************************)
\* C21: once check_opportunity has denied an opportunity at time T, the next
\* check_opportunity call, made at a time t with t - T < cooldown_period and
\* with no reset in between, denies with the cooldown reason, whatever
\* prices it carries.
C21_DenialStartsCooldown ==
    [][ ( /\ apc.last.op = "check"
          /\ ~ apc.last.allowed
          /\ apc' # apc
          /\ apc'.last.op = "check"
          /\ clock.now - apc.last.now < CooldownPeriod )
        => ( ~ apc'.last.allowed /\ apc'.last.reason = "cooldown" ) ]_vars

\* C21 (amended): once check_opportunity has denied an opportunity for an
\* abnormal price at time T, every check_opportunity call at a time t with
\* t - T < cooldown_period, no reset in between, denies with the cooldown
\* reason, whatever prices it carries.
C21_AbnormalDenialStartsCooldown ==
    ( /\ apc.last.op = "check"
      /\ apc.last.abnormal_before # << >>
      /\ apc.last.now - apc.last.abnormal_before[1] < CooldownPeriod )
    => ( ~ apc.last.allowed /\ apc.last.reason = "cooldown" )

\* A second after the abnormal denial a check carrying unremarkable prices
\* (both symbols' latest sample equal to the one before) is denied.
C21_Witness ==
    /\ apc.last.op = "check"
    /\ apc.last.abnormal_before # << >>
    /\ apc.last.now = apc.last.abnormal_before[1] + 1
    /\ apc.last.reason = "cooldown"
    /\ ~ DetectAbnormalPrice(apc.ctl.price_history, SymbolOf("USDT"))
    /\ ~ DetectAbnormalPrice(apc.ctl.price_history, SymbolOf("USDC"))

\* Prices of the samples stored for a symbol, oldest first.
SamplesOf(symbol) ==
    LET records == SelectSeq(apc.ctl.price_history, LAMBDA r : r.symbol = symbol)
    IN  [ i \in 1..Len(records) |-> records[i].price ]

RECURSIVE SumOf(_)
SumOf(samples) == IF samples = << >> THEN 0 ELSE Head(samples) + SumOf(Tail(samples))

\* |latest - mean| / mean * 100 > abnormal_threshold, the mean taken over the
\* samples before the latest: with sum the sum of those k samples,
\* |k * latest - sum| * 100 > abnormal_threshold * sum.
Deviates(symbol) ==
    LET samples == SamplesOf(symbol)
        k == Len(samples) - 1
        earlier == SubSeq(samples, 1, k)
    IN  /\ Len(samples) >= 2
        /\ Abs(k * samples[k + 1] - SumOf(earlier)) * 100 > AbnormalThreshold * SumOf(earlier)

\* The last call was a check_opportunity made outside a cooldown.
CheckedOutsideCooldown ==
    /\ apc.last.op = "check"
    /\ ~ ( /\ apc.last.timer_before # << >>
           /\ apc.last.now - apc.last.timer_before[1] < CooldownPeriod )

OtherQuote(quote) == IF quote = "USDT" THEN "USDC" ELSE "USDT"

ExpoDecided == expo.last.op = "check" /\ expo.last.outcome # "err"

\* |position + max_trade_amount / buy_price| > limit for the opportunity o,
\* with buy_price > 0: |position * buy_price + max_trade_amount| > limit * buy_price
Exceeds(position, o, limit) ==
    Abs(position * o.buy_price + o.max_trade_amount * DecUnit) > limit * o.buy_price

C26_DecidesOnStoredPosition ==
    ExpoDecided =>
        LET o == expo.last.opportunity
            before == expo.last.positions_before
            stored == IF o.base_asset \in DOMAIN before THEN before[o.base_asset] ELSE 0
        IN  expo.last.outcome = "denied" <=>
               ( /\ o.base_asset \in DOMAIN expo.max_exposures
                 /\ Exceeds(stored, o, expo.max_exposures[o.base_asset]) )

(***************************************************************************)
(* PairBlacklistController.                                                *)
(***************************************************************************)
\* The list operation o is about the pair: it names it, or it names the base
\* asset the pair is the USDT or USDC pair of, or it is a reset.
Touches(o, pair) ==
    \/ o.op \in { "add", "remove" } /\ pair = o.asset \o o.quote
    \/ o.op \in { "add_base", "remove_base" }
          /\ pair \in { o.asset \o "USDT", o.asset \o "USDC" }
    \/ o.op = "reset"

\* The pair is currently listed: the latest operation about it added it.
Listed(pair) ==
    LET ops == pair_blacklist.ops
        about == { i \in 1..Len(ops) : Touches(ops[i], pair) }
    IN  /\ about # {}
        /\ LET latest == CHOOSE i \in about : \A j \in about : j <= i
           IN  ops[latest].op \in { "add", "add_base" }

\* C24: after any sequence of add_to_blacklist, add_base_asset_to_blacklist,
\* remove_from_blacklist, remove_base_asset_from_blacklist (and reset) calls,
\* check_opportunity for base asset X denies iff the pair X+USDT or the pair
\* X+USDC is currently listed, whichever quote the opportunity buys with; so
\* X is denied after add_base_asset(X), allowed again after a later
\* remove_base_asset(X), and a base-asset operation on X changes nothing for
\* another base asset.
C24_DeniesIffEitherPairListed ==
    /\ pair_blacklist.last.op = "check" =>
          LET X == pair_blacklist.last.opportunity.base_asset
          IN  ~ pair_blacklist.last.allowed <=> ( Listed(X \o "USDT") \/ Listed(X \o "USDC") )
    /\ \A X \in BaseAssets :
          LET ops == pair_blacklist.ops
              n == Len(ops)
              o == [ base_asset |-> X, buy_quote |-> "USDT" ]
              set == pair_blacklist.blacklist
          IN  n > 0 =>
                /\ ops[n] = [ op |-> "add_base", asset |-> X, quote |-> "" ]
                      => ~ BlCheckOpportunity(set, o)
                /\ ops[n] = [ op |-> "remove_base", asset |-> X, quote |-> "" ]
                      => BlCheckOpportunity(set, o)

\* After add_base_asset("BTC") and remove_from_blacklist("BTC", "USDT") an
\* opportunity that buys BTC with USDT is still denied, for the USDC pair.
C24_Witness ==
    /\ pair_blacklist.last.op = "check"
    /\ pair_blacklist.last.opportunity = [ base_asset |-> "BTC", buy_quote |-> "USDT" ]
    /\ ~ pair_blacklist.last.allowed
    /\ Len(pair_blacklist.ops) = 2
    /\ pair_blacklist.ops[1].op = "add_base"
    /\ pair_blacklist.ops[2] = [ op |-> "remove", asset |-> "BTC", quote |-> "USDT" ]

(***************************************************************************)
(* TradingFrequencyController.                                             *)
(***************************************************************************)
\* C23: with r1..rn the trades (Completed or Failed results) recorded since
\* the controller was new or reset, a check_opportunity at time t allows only
\* if t - timestamp(rn) >= min_interval_seconds and fewer than
\* max_trades_per_timeframe of them have a timestamp > t - timeframe_seconds;
\* a fresh controller (max_trades_per_timeframe > 0) allows.
C23_AllowsOnlyWithinFrequency ==
    ctl_log.last.op = "freq_check" =>
        LET trades == ctl_log.trades
            n == Len(trades)
            t == ctl_log.last.now
            recent == { i \in 1..n : trades[i] > t - TimeframeSeconds }
        IN  /\ ctl_log.last.allowed =>
                 /\ n > 0 => t - trades[n] >= MinIntervalSeconds
                 /\ Cardinality(recent) < MaxTradesPerTimeframe
            /\ n = 0 => ctl_log.last.allowed

\* A check is denied for the number of trades in the timeframe alone: the
\* latest trade is min_interval_seconds old.
C23_Witness ==
    /\ ctl_log.last.op = "freq_check"
    /\ ~ ctl_log.last.allowed
    /\ Len(ctl_log.trades) >= MaxTradesPerTimeframe
    /\ ctl_log.last.now - ctl_log.trades[Len(ctl_log.trades)] >= MinIntervalSeconds

(***************************************************************************)
(* TradingTimeWindowController.                                            *)
(***************************************************************************)
\* The local time t (seconds from midnight) lies in the window the
\* controller was built with.
InWindow(t) ==
    LET w == tw.built.window
        start == (w[1] * 60 + w[2]) * 60
        end == (w[3] * 60 + w[4]) * 60
    IN  \/ start <= end /\ start <= t /\ t <= end
        \/ start > end /\ ( t >= start \/ t <= end )

\* C27: check_opportunity allows iff (the local day is not Saturday or Sunday,
\* or trade_on_weekends is set) and the local time t satisfies
\* start <= t <= end when start <= end, or t >= start or t <= end when
\* start > end; record_result and reset leave the controller as it was built,
\* so they never change its answer.
C27_AllowsIffInWindow ==
    /\ tw.last.op = "check" =>
          ( tw.last.allowed <=>
              /\ tw.last.weekday \notin { 6, 7 } \/ tw.built.trade_on_weekends
              /\ InWindow(tw.last.time) )
    /\ tw.ctl = TwNew(tw.built.window, tw.built.trade_on_weekends)

\* On a Saturday, weekends excluded, a check made inside the window is denied.
C27_Witness ==
    /\ tw.last.op = "check"
    /\ tw.last.weekday = 6
    /\ ~ tw.built.trade_on_weekends
    /\ InWindow(tw.last.time)
    /\ ~ tw.last.allowed

(***************************************************************************)
(* Opportunities as emitted.                                               *)
(***************************************************************************)
\* p is 100 * diff / buy to the precision kept, whichever of the product and
\* the quotient is rounded: |p - 100 * diff / buy| <= 50 units.
PercentOf(p, diff, buy) == Abs(p * buy - 100 * diff * DecUnit) <= 50 * Abs(buy)

\* C28: every opportunity emitted by one of the five strategies or by the
\* engine's fallback has buy_quote # sell_quote, price_diff = sell_price -
\* buy_price, and profit_percentage = 0 when buy_price = 0, else
\* 100 * (sell_price - buy_price) / buy_price, on the prices stored in the
\* opportunity itself (also those SlippageControl has shifted).
C28_EmittedConsistent ==
    emitted.opportunity # NoOpportunity =>
        LET o == emitted.opportunity
        IN  /\ o.buy_quote \in QuoteCurrency /\ o.sell_quote \in QuoteCurrency
            /\ o.buy_quote # o.sell_quote
            /\ o.price_diff = o.sell_price - o.buy_price
            /\ o.buy_price = 0 => o.profit_percentage = 0
            /\ o.buy_price # 0 =>
                  PercentOf(o.profit_percentage, o.sell_price - o.buy_price, o.buy_price)

\* SlippageControl has emitted an opportunity whose prices it shifted away
\* from the spot prices.
C28_Witness ==
    /\ emitted.by = "SlippageControl"
    /\ emitted.opportunity # NoOpportunity
    /\ emitted.opportunity.buy_price \notin EmitPrices
    /\ emitted.opportunity.sell_price \notin EmitPrices
    /\ emitted.opportunity.profit_percentage > 0

(***************************************************************************)
(* Concurrent calls on AbnormalPriceController.                            *)
(***************************************************************************)
\* The call made alone on the controller c at the time now: the state left
\* and the answer.
AloneOn(c, call, now) ==
    IF call.op = "check"
    THEN ApcCheckOpportunity(c, call.opportunity, now)
    ELSE [ state |-> ApcReset(c), allowed |-> TRUE, reason |-> "none" ]

\* Both calls have returned, and the ring, the timer and the two answers are
\* those of the call `first` made alone and the other one after it.
AsInOrder(first) ==
    LET second == 3 - first
        a == AloneOn(apc_run.from, apc_run.calls[first], apc_run.now)
        b == AloneOn(a.state, apc_run.calls[second], apc_run.now)
    IN  /\ apc_run.ctl = b.state
        /\ apc_run.calls[first].allowed = a.allowed
        /\ apc_run.calls[first].reason = a.reason
        /\ apc_run.calls[second].allowed = b.allowed
        /\ apc_run.calls[second].reason = b.reason

BothReturned ==
    /\ apc_run.calls # << >>
    /\ \A i \in 1..2 : apc_run.calls[i].pc = "done"

\* C29: whatever the interleaving of the lock acquisitions of a
\* check_opportunity call with a concurrent reset or a second
\* check_opportunity, the price ring, the cooldown timer and the returned
\* decisions end as in some serial order of the two calls.
C29_SerialOutcome ==
    BothReturned => AsInOrder(1) \/ AsInOrder(2)

(***************************************************************************)
(* Concurrent calls on TradingFrequencyController.                         *)
(***************************************************************************)
\* The call made alone on the controller f at the time now: the state left
\* and the answer.
FreqAloneOn(f, call, now) ==
    CASE call.op = "check" -> FreqCheck(f, now)
      [] call.op = "record" ->
            [ state |-> FreqRecord(f, now, [ status |-> "Completed", profit |-> 0 ]),
              allowed |-> TRUE, reason |-> "none" ]
      [] OTHER -> [ state |-> FreqReset(f), allowed |-> TRUE, reason |-> "none" ]

\* The calls made alone one after the other in the order given, from the
\* controller f: the state left, and whether each answer is the one the call
\* returned in the run.
RECURSIVE FreqInOrder(_, _)
FreqInOrder(f, order) ==
    IF order = << >> THEN f = freq_run.ctl
    ELSE LET call == freq_run.calls[Head(order)]
             a == FreqAloneOn(f, call, freq_run.now)
         IN  /\ call.allowed = a.allowed
             /\ call.reason = a.reason
             /\ FreqInOrder(a.state, Tail(order))

Orders == { order \in [ 1..NumCalls -> 1..NumCalls ] :
               \A i, j \in 1..NumCalls : i # j => order[i] # order[j] }

AllReturned ==
    /\ freq_run.calls # << >>
    /\ \A i \in 1..NumCalls : freq_run.calls[i].pc = "done"

\* C30: whatever the interleaving of the acquisitions of the two locks by
\* concurrent check_opportunity, record_result and reset calls,
\* last_trade_time, recent_trades and the returned decisions and reasons end
\* as in some serial order of the calls.
C30_SerialOutcome ==
    AllReturned => \E order \in Orders : FreqInOrder(freq_run.from, order)

(***************************************************************************)
(* TrendFollowing: trends against the intended buy leg.                    *)
(***************************************************************************)
RECURSIVE SumOfLatest(_, _, _)
SumOfLatest(history, n, side) ==
    IF n = 0 THEN 0
    ELSE history[Len(history) - n + 1][side] + SumOfLatest(history, n - 1, side)

\* short-window mean minus long-window mean of a market, times both windows
MeanGap(side) ==
    SumOfLatest(trend.price_history, ShortWindow, side) * LongWindow
    - SumOfLatest(trend.price_history, LongWindow, side) * ShortWindow

LongSum(side) == SumOfLatest(trend.price_history, LongWindow, side) * ShortWindow

Measured == trend.called /\ Len(trend.price_history) >= LongWindow

\* The market's short-window mean lies exactly 1.5 % above its long-window mean.
UpByOneAndAHalf(side) == Measured /\ 200 * MeanGap(side) = 3 * LongSum(side)

\* The market's short-window mean lies more than 2 % above (sign 1) or below
\* (sign -1) its long-window mean.
BeyondTwoPercent(side, sign) == Measured /\ 100 * sign * MeanGap(side) > 2 * LongSum(side)

\* The latest sample: the spot prices of the call.
Spot(side) == trend.price_history[Len(trend.price_history)][side]

\* The market of the intended buy leg: the cheaper one, USDC on equal prices.
BuySide == IF Spot(1) < Spot(2) THEN 1 ELSE 2

\* Two consecutive samples among the recent ones differ by more than 5 %.
Spiked ==
    \E i \in 2..Len(trend.price_history) :
       /\ i - 1 > Len(trend.price_history) - trend.recent
       /\ \E side \in 1..2 :
             100 * Abs(trend.price_history[i][side] - trend.price_history[i - 1][side])
                > 5 * trend.price_history[i - 1][side]

\* C31 as stated: find_opportunity returns no opportunity when the quote of
\* the intended buy leg is in an Up-trend of strength 1.5 %.
C31_UpTrendAborts ==
    (trend.called /\ UpByOneAndAHalf(BuySide)) => trend.opportunity = NoOpportunity

\* C31: find_opportunity returns no opportunity exactly when a volatility
\* spike is found, the buy leg's quote trends up by more than 2 % or the sell
\* leg's quote trends down by more than 2 %; with the buy leg's quote in an
\* Up-trend of 1.5 % and the other market's trend no stronger it returns the
\* opportunity of the spot prices with max_trade_amount reduced to 95 %.
C31_AbortsBeyondTwoPercent ==
    trend.called =>
        /\ trend.opportunity = NoOpportunity
              <=> \/ Spiked
                  \/ BeyondTwoPercent(BuySide, 1)
                  \/ BeyondTwoPercent(3 - BuySide, -1)
        /\ ( /\ UpByOneAndAHalf(BuySide)
             /\ ~ Spiked
             /\ MeanGap(3 - BuySide) = 0 )
              => /\ trend.opportunity # NoOpportunity
                 /\ trend.opportunity.buy_price = Spot(BuySide)
                 /\ trend.opportunity.sell_price = Spot(3 - BuySide)
                 /\ trend.opportunity.max_trade_amount * 100 = DecFrom(MaxTradeAmountUsdt) * 95

\* USDT is the cheaper market and trends up by 1.5 %, USDC moves sideways:
\* the opportunity is returned.
C31_Witness ==
    /\ trend.called
    /\ BuySide = 1
    /\ UpByOneAndAHalf(1)
    /\ MeanGap(2) = 0
    /\ ~ Spiked
    /\ trend.opportunity # NoOpportunity
    /\ trend.opportunity.buy_quote = "USDT"

(***************************************************************************)
(* OrderBookDepth: books too thin for the quantity.                        *)
(***************************************************************************)
RECURSIVE SumSeq(_)
SumSeq(q) == IF q = << >> THEN 0 ELSE Head(q) + SumSeq(Tail(q))

\* The side walked offers less than the quantity asked for.
Thin(walk) == SumSeq(walk.quantities) < depth.amount

\* C32: find_opportunity returns None whenever one of its four walks finds a
\* side of the book that cannot fill the full approx_base quantity, the walk
\* reporting the available liquidity with slippage 0.
C32_ThinBookGivesNone ==
    /\ \A i \in 1..Len(depth.walks) :
          Thin(depth.walks[i]) =>
              /\ depth.walks[i].liquidity = SumSeq(depth.walks[i].quantities)
              /\ depth.walks[i].slippage = 0
    /\ (depth.at = "done" /\ \E i \in 1..Len(depth.walks) : Thin(depth.walks[i]))
          => depth.answer # "some"

(***************************************************************************)
(* reset and the check that follows it.                                    *)
(***************************************************************************)
\* The answer a controller of the kind, constructed at this clock reading,
\* gives to the call just made.
FreshAnswer ==
    CheckOn(rst.kind, NewController(rst.kind, rst.date), rst.last.opportunity,
            rst.now, rst.date).allowed

\* C33: after reset() the next check_opportunity of a DailyLossLimit,
\* AbnormalPrice, Frequency or PairBlacklist controller returns the decision
\* the same call gets from a freshly constructed controller at the same clock
\* reading, whatever checks, records and additions preceded the reset; the
\* blacklist is empty again.
C33_CheckAfterResetAsFresh ==
    /\ (rst.last.op = "check" /\ rst.last.after_reset) => rst.last.allowed = FreshAnswer
    /\ (rst.kind = "PairBlacklist" /\ rst.reset_last) => rst.ctl = {}

\* A controller that denied the opportunity before its reset has answered the
\* check that followed the reset.
C33_Witness ==
    /\ rst.last.op = "check"
    /\ rst.last.after_reset
    /\ rst.denied
    /\ rst.last.allowed

(***************************************************************************)
(* The sizes of the rolling stores.                                        *)
(***************************************************************************)
\* The store after the call holds the entries of the store before it in their
\* order, less some of the oldest, followed by the one or two new ones; it has
\* lost entries only to stay at its cap.
OldestFirst(before, after, cap) ==
    \E dropped \in 0..Len(before), added \in 1..2 :
       /\ Len(after) = Len(before) - dropped + added
       /\ \A i \in 1..(Len(before) - dropped) : after[i] = before[dropped + i]
       /\ dropped > 0 => Len(after) = cap

\* The caps of the stores.
StoreNames == { "twap", "slippage", "trend", "ring" }

StoreCap(name) ==
    CASE name = "twap" -> MaxTwapHistory
      [] name = "slippage" -> VolatilityWindowSize
      [] name = "trend" -> LongWindow
      [] OTHER -> 2 * WindowSize

\* C34: after any sequence of find_opportunity, check_opportunity and
\* add_price calls the rolling stores stay bounded and lose their oldest entry
\* first: the TWAP history holds at most its cap of samples, the
\* SlippageControl history at most volatility_window_size, the TrendFollowing
\* history at most long_window, the AbnormalPrice ring at most 2 * window_size.
C34_StoresBounded ==
    [][ \A name \in StoreNames :
           /\ Len(stores'[name]) <= StoreCap(name)
           /\ stores'[name] # stores[name]
                 => OldestFirst(stores[name], stores'[name], StoreCap(name)) ]_vars

\* The ring and the history of a strategy are full and have each lost an entry.
C34_Witness ==
    /\ "ring" \in stores.evicted
    /\ Len(stores.ring) = 2 * WindowSize
    /\ \E name \in StoreNames \ { "ring" } :
          name \in stores.evicted /\ Len(stores[name]) = StoreCap(name)

(***************************************************************************)
(* The records of one symbol in the ring.                                  *)
(***************************************************************************)
\* C35: after any sequence of add_price and check_opportunity calls the ring
\* of the AbnormalPrice controller retains at most window_size price records
\* of each symbol.
C35_SymbolWithinWindow ==
    \A q \in { "USDT", "USDC" } :
       Len(SymbolRecords(stores.ring, SymbolOf(q))) <= WindowSize

(***************************************************************************)
(* The executions an engine with the frequency controller records.         *)
(***************************************************************************)
\* The executions recorded from one second to another, both included.
RecordedIn(from, to) ==
    { i \in 1..Len(freq_eng.recorded) :
         from <= freq_eng.recorded[i] /\ freq_eng.recorded[i] <= to }

\* C36: with the Frequency controller enabled, the executions the engine
\* records (Completed or Failed) are such that two consecutive record times
\* are at least min_interval_seconds apart, no window of timeframe_seconds
\* contains more than max_trades_per_timeframe of them, and recent_trades
\* holds no more than max_trades_per_timeframe entries right after a record.
C36_RecordsWithinLimits ==
    /\ \A i \in 1..(Len(freq_eng.recorded) - 1) :
          freq_eng.recorded[i + 1] - freq_eng.recorded[i] >= MinIntervalSeconds
    /\ \A from \in 0..MaxLoopTime :
          Cardinality(RecordedIn(from, from + TimeframeSeconds)) <= MaxTradesPerTimeframe
    /\ freq_eng.last = "record" =>
          Len(freq_eng.ctl.recent_trades) <= MaxTradesPerTimeframe

\* After a denial for the number of trades in the window, the engine has
\* recorded a further execution.
C36_Witness ==
    /\ freq_eng.last = "record"
    /\ Len(freq_eng.recorded) > MaxTradesPerTimeframe
    /\ Len(freq_eng.ctl.recent_trades) = MaxTradesPerTimeframe

(***************************************************************************)
(* The exchange's orders after a failed execution.                         *)
(***************************************************************************)
\* C37: when a two-leg execution has ended Failed and is recorded with a zero
\* trade_amount, no order placed during it is Filled at the exchange: an order
\* that did not fill has been cancelled, and a filled buy is not left without
\* a completed sell.
C37_NothingFilledAfterFailed ==
    ( /\ pc = "sleep" /\ Len(recorded) = 1
      /\ recorded[1].status = "Failed" /\ recorded[1].trade_amount = 0 )
    => \A id \in DOMAIN orders : orders[id].status # "Filled"

(***************************************************************************)
(* The AbnormalPriceController once prices have settled.                   *)
(***************************************************************************)
\* The check just made was one of the settled opportunity.
SettledCheck == apc_calm.last.op = "settled_check"

\* The timer stood within the cooldown period when the check was made.
WasInCooldown ==
    /\ apc_calm.last.timer_before # << >>
    /\ CalmNow - apc_calm.last.timer_before[1] < CooldownPeriod

\* C38: the AbnormalPriceController cannot deny forever under stable prices.
\* A denial issued in cooldown leaves the timer as it was and the prices of
\* the opportunity are recorded all the same; once the prices have settled
\* after an anomaly, a check made when the cooldown has elapsed and
\* window_size checks of the settled prices have been made allows; and as
\* checks keep being made and time passes, a check allows again.
C38_AllowsAgain ==
    /\ [](apc_calm.last.reason = "cooldown" =>
            /\ apc_calm.ctl.last_abnormal_time = apc_calm.last.timer_before
            /\ Len(apc_calm.ctl.price_history)
                 = IF apc_calm.last.len_before + 2 > 2 * WindowSize
                   THEN 2 * WindowSize ELSE apc_calm.last.len_before + 2)
    /\ []( ( /\ SettledCheck
             /\ apc_calm.settled_checks = WindowSize
             /\ ~ WasInCooldown )
           => apc_calm.last.allowed )
    /\ (apc_calm.settled # << >>) ~> (SettledCheck /\ apc_calm.last.allowed)

\* With the cooldown elapsed and window_size checks of the settled prices made, the
\* controller has allowed the settled opportunity.
C38_Witness ==
    /\ apc_calm.last.op = "settled_check"
    /\ apc_calm.settled_checks = WindowSize
    /\ apc_calm.last.allowed
    /\ apc_calm.last.timer_before = << 0 >>

(***************************************************************************)
(* The mutexes of the controllers under concurrent calls.                  *)
(***************************************************************************)
\* The mutex taken first where two are held together.
FirstMutex ==
    CASE lock_run.kind = "DailyLossLimit" -> "current_date"
      [] lock_run.kind = "Frequency" -> "last_trade_time"
      [] OTHER -> "price_history"

InFlight(t) == lock_run.rest[t] # << >>

Holds(t) == { m \in DOMAIN lock_run.owner : lock_run.owner[m] = t }

Waits(t, m) == InFlight(t) /\ Head(lock_run.rest[t]) = << "acq", m >>

\* The thread's next step can be taken.
CanStep(t) ==
    /\ InFlight(t)
    /\ \A m \in DOMAIN lock_run.owner : Waits(t, m) => lock_run.owner[m] = 0

\* C39: no interleaving of concurrent check_opportunity, record_result and
\* reset calls on a DailyLossLimit, AbnormalPrice or Frequency controller
\* deadlocks: two mutexes held together are acquired in one order
\* (current_date before daily_pnl, last_trade_time before recent_trades,
\* price_history before last_abnormal_time), some call in flight can always
\* go on, and every call returns in the end with all the mutexes released.
C39_NoDeadlock ==
    /\ [](\A t \in LockThreads :
             /\ Waits(t, FirstMutex) => Holds(t) = {}
             /\ ~ InFlight(t) => Holds(t) = {})
    /\ []((\E t \in LockThreads : InFlight(t)) => \E t \in LockThreads : CanStep(t))
    /\ <>[](\A t \in LockThreads : ~ InFlight(t) /\ Holds(t) = {})

\* A thread waits for a mutex that another thread holds together with a
\* second one.
C39_Witness ==
    \E t \in LockThreads, u \in LockThreads :
       /\ t # u
       /\ Waits(t, FirstMutex) /\ lock_run.owner[FirstMutex] = u
       /\ Cardinality(Holds(u)) = 2

(***************************************************************************)
(* The grounds the frequency controller has for denying.                   *)
(***************************************************************************)
\* The interval gate is open at the check just made.
IntervalPassed ==
    LET n == Len(ctl_log.trades)
    IN  n > 0 => ctl_log.last.now - ctl_log.trades[n] >= MinIntervalSeconds

\* Trades recorded later than the time, or at the time as well.
TradesAfter(time) == { i \in 1..Len(ctl_log.trades) : ctl_log.trades[i] > time }

TradesSince(time) == { i \in 1..Len(ctl_log.trades) : ctl_log.trades[i] >= time }

\* C40 as stated: TradingFrequencyController.check_opportunity allows whenever
\* the time since the last recorded trade is >= min_interval_seconds and fewer
\* than max_trades_per_timeframe recorded trades have a timestamp strictly
\* later than now - timeframe_seconds, a trade recorded exactly
\* timeframe_seconds ago not being counted.
C40_AllowsWithinGates ==
    ( /\ ctl_log.last.op = "freq_check"
      /\ IntervalPassed
      /\ Cardinality(TradesAfter(ctl_log.last.now - TimeframeSeconds))
           < MaxTradesPerTimeframe )
    => ctl_log.last.allowed

\* C40 amended: check_opportunity allows whenever the time since the last
\* recorded trade is >= min_interval_seconds and fewer than
\* max_trades_per_timeframe recorded trades have a timestamp not earlier than
\* now - timeframe_seconds; a trade recorded exactly timeframe_seconds ago is
\* still counted.
C40_AllowsWithinClosedWindow ==
    ( /\ ctl_log.last.op = "freq_check"
      /\ IntervalPassed
      /\ Cardinality(TradesSince(ctl_log.last.now - TimeframeSeconds))
           < MaxTradesPerTimeframe )
    => ctl_log.last.allowed

\* A check is allowed although max_trades_per_timeframe trades have been
\* recorded: one of them is older than the timeframe.
C40_Witness ==
    /\ ctl_log.last.op = "freq_check"
    /\ ctl_log.last.allowed
    /\ Len(ctl_log.trades) >= MaxTradesPerTimeframe
    /\ ctl_log.trades[1] < ctl_log.last.now - TimeframeSeconds

====
